---- MODULE Spec2Model ----
(***************************************************************************)
(* Model of the IPAM engine's space router (engine/app/routers/space.py):  *)
(* a Space document with embedded Blocks, each holding attached virtual    *)
(* networks and CIDR reservations, mutated by request handlers that fetch  *)
(* the document, compute on a private copy and write it back with a        *)
(* version-conditioned replace under a bounded retry decorator.            *)
(*                                                                         *)
(* Addresses are AddrBits wide instead of 32; a CIDR is a record           *)
(* [base, len]; an IPSet is the set of the addresses it covers.            *)
(***************************************************************************)
EXTENDS Integers, Sequences, FiniteSets, TLC

\* ------------------------------------------------------------------ bounds

\* Width of an address in bits (32 for IPv4 in the program).
AddrBits == 3

\* Number of conditioned writes to one document after which no new request is
\* accepted (requests in flight still run to their end).
MaxEtag == 3

\* The same for the specification of the retry wrapper, whose requests are few:
\* a request exhausts its attempts only if five other writes get in its way.
MaxWrites == 5

\* Number of reservation ids drawn after which no new create request is accepted.
MaxIds == 2

\* Writes after which the racing callers send no new request.
MaxRaceWrites == 1

\* Renames of one Space after which no new update_space request is accepted.
MaxRenames == 1

\* ------------------------------------------------------- sequence helpers

\* F applied to the value of v: v is computed once, as an assignment does.
Let(v, F(_)) == CHOOSE y \in {F(x) : x \in {v}} : TRUE

\* s[::-1]
Reverse(s) == [i \in 1..Len(s) |-> s[Len(s) + 1 - i]]

RECURSIVE Filter(_, _)
\* list(filter(lambda x: x in keep, s))
Filter(s, keep) ==
    IF s = <<>> THEN <<>>
    ELSE IF Head(s) \in keep THEN <<Head(s)>> \o Filter(Tail(s), keep)
         ELSE Filter(Tail(s), keep)

RECURSIVE Concat(_)
Concat(ss) == IF ss = <<>> THEN <<>> ELSE Head(ss) \o Concat(Tail(ss))

Range(s) == {s[i] : i \in DOMAIN s}

\* del s[i]
\* Faulty variant: the first entry is deleted, whatever the index.
Del_first(s, i) == [j \in 1..(Len(s) - 1) |-> s[j + 1]]

Del(s, i) == [j \in 1..(Len(s) - 1) |-> IF j < i THEN s[j] ELSE s[j + 1]]

\* next((i for i, item in enumerate(s) if item in keep), None); 0 stands for None
IndexOf(s, keep) ==
    IF \E i \in DOMAIN s : s[i] \in keep
    THEN CHOOSE i \in DOMAIN s : s[i] \in keep /\ \A j \in 1..(i - 1) : s[j] \notin keep
    ELSE 0

Max(S) == CHOOSE x \in S : \A y \in S : y <= x

\* --------------------------------------------------------- CIDR set algebra

RECURSIVE Pow2(_)
Pow2(n) == IF n = 0 THEN 1 ELSE 2 * Pow2(n - 1)

Addr == 0..(Pow2(AddrBits) - 1)

\* IPNetwork(c).size
Size(c) == Pow2(AddrBits - c.len)

\* The idx-th network of prefix length len, counted from address 0.
Net(idx, len) == [base |-> idx * Pow2(AddrBits - len), len |-> len]

\* Every well-formed network of the address space.
AllCidrs == UNION {{Net(i, l) : i \in 0..(Pow2(l) - 1)} : l \in 0..AddrBits}

Hosts(c) == c.base..(c.base + Size(c) - 1)

\* IPNetwork(a) in IPNetwork(b)
InNet(a, b) == a.base >= b.base /\ a.base + Size(a) <= b.base + Size(b)

\* IPSet(list of cidrs): the addresses covered.
IPSet(cidrs) == UNION {Hosts(cidrs[i]) : i \in DOMAIN cidrs}

\* a ^ b
SymDiff(a, b) == (a \ b) \cup (b \ a)

\* The network one bit shorter that holds c.
Supernet(c) == [base |-> c.base - (c.base % (2 * Size(c))), len |-> c.len - 1]

\* Faulty variant: adjacent networks are never merged, the set is kept as
\* single addresses.
MaximalCidrs_unmerged(S) == {c \in AllCidrs : Hosts(c) \subseteq S /\ c.len = AddrBits}

\* The networks IPSet keeps for a set of addresses: the aligned networks inside
\* it whose supernet is not inside it.
MaximalCidrs(S) ==
    {c \in AllCidrs :
        /\ Hosts(c) \subseteq S
        /\ c.len > 0 => ~(Hosts(Supernet(c)) \subseteq S)}

\* The networks of C, which start at different addresses, in ascending order.
SortByBase(C) ==
    [i \in 1..Cardinality(C) |->
        CHOOSE c \in C : Cardinality({d \in C : d.base < c.base}) = i - 1]

\* IPSet.iter_cidrs(): the constituent networks in ascending address order.
iter_cidrs(S) == Let(MaximalCidrs(S), SortByBase)

\* list(net.subnet(prefixlen)): empty when prefixlen is shorter than the net's.
subnet(c, prefixlen) ==
    IF prefixlen < c.len THEN <<>>
    ELSE [i \in 1..Pow2(prefixlen - c.len) |->
            [base |-> c.base + (i - 1) * Pow2(AddrBits - prefixlen), len |-> prefixlen]]

\* ------------------------------------------------------------ collaborators

\* Callers as the identity resolver names them, and those get_admin accepts.
Users == {"alice", "bob"}
\* Faulty variant: get_admin accepts every caller.
Admins_everyone == {"alice", "bob", "root"}

Admins == {"root"}
Callers == Users \cup Admins

\* str.lower() on the names used here.
Lower(s) ==
    CASE s = "A" -> "a" [] s = "B" -> "b" [] s = "S1" -> "s1" [] s = "V1" -> "v1"
      [] OTHER -> s

\* arg_query(..., argquery.VNET) after vnet_fixup: the external network
\* directory, held fixed. v2 has two prefixes inside the first half of the
\* address space, the second of them v3's prefix, and one in the second half.
vnet_list ==
    << [id |-> "v1", prefixes |-> <<Net(0, 3)>>,
        subnets |-> <<[prefix |-> Net(0, 3)]>>],
       [id |-> "v2", prefixes |-> <<Net(4, 3), Net(1, 3), Net(1, 2)>>,
        subnets |-> <<[prefix |-> Net(4, 3)], [prefix |-> Net(2, 3)]>>],
       [id |-> "v3", prefixes |-> <<Net(1, 2)>>,
        subnets |-> <<[prefix |-> Net(2, 3)], [prefix |-> Net(3, 3)]>>] >>

\* next((x for x in vnet_list if x['id'].lower() == id.lower()), None) as a
\* list of zero or one entries.
find_vnet(id) ==
    LET i == IndexOf(vnet_list, {x \in Range(vnet_list) : Lower(x.id) = Lower(id)})
    IN  IF i = 0 THEN <<>> ELSE <<vnet_list[i]>>

\* Faulty variant: the prefixes of a network are taken as they are, whether
\* inside the block or not.
clipped_none(id, block_cidr) ==
    IF find_vnet(id) = <<>> THEN <<>> ELSE find_vnet(id)[1].prefixes

\* list(filter(lambda x: IPNetwork(x) in IPNetwork(block['cidr']), target['prefixes']))
\* if target else []
clipped(id, block_cidr) ==
    LET t == find_vnet(id)
    IN  IF t = <<>> THEN <<>>
        ELSE Filter(t[1].prefixes, {x \in Range(t[1].prefixes) : InNet(x, block_cidr)})

\* ------------------------------------------------------------------- state

VARIABLES
    store,      \* the container: space id -> space document (with its etag)
    nextId,     \* number of ids shortuuid and uuid4 have handed out
    pc,         \* per request slot: "idle", "run", "write" or "done"
    req,        \* the request a slot is serving
    tries,      \* cosmos_retry's remaining attempts
    fetched,    \* space_query[0] of the current attempt
    target,     \* target_space of the current attempt, as passed to cosmos_replace
    val,        \* the value the handler is about to return
    result      \* what the caller got: "ok" or the error

vars == <<store, nextId, pc, req, tries, fetched, target, val, result>>

Procs == {"p1", "p2"}

NoDoc == [id |-> 0]
NoVal == [id |-> 0]
NoReq == [api |-> "none"]

\* @cosmos_retry(max_retry = 5, ...)
max_retry == 5

\* cosmos_query("SELECT * FROM c WHERE c.type = 'space' AND LOWER(c.name) =
\* LOWER('{}')".format(space), tenant_id), in id order.
RECURSIVE DocsInOrder(_, _)
DocsInOrder(st, ids) ==
    IF ids = {} THEN <<>>
    ELSE LET m == CHOOSE i \in ids : \A j \in ids : i <= j
         IN  <<st[m]>> \o DocsInOrder(st, ids \ {m})

cosmos_query(st, space) ==
    DocsInOrder(st, {i \in DOMAIN st : Lower(st[i].name) = Lower(space)})

\* next((i for i, x in enumerate(blocks) if x['name'].lower() == block.lower()), None)
find_block(blocks, block) ==
    IndexOf(blocks, {x \in Range(blocks) : Lower(x.name) = Lower(block)})

\* What one run of a handler body yields up to its cosmos_replace call: an
\* error raised before it, or the two documents handed to cosmos_replace and
\* the value returned after it.
Raise(detail) == [err |-> detail, old |-> NoDoc, new |-> NoDoc, val |-> NoVal]
Write(old, new, v) == [err |-> "", old |-> old, new |-> new, val |-> v]

\* Faulty variant: the changed block is always written in the first position.
WithBlock_first(space, bi, block) ==
    [space EXCEPT !.blocks = [space.blocks EXCEPT ![1] = block]]

\* target_space with blocks[bi] replaced
WithBlock(space, bi, block) ==
    [space EXCEPT !.blocks = [space.blocks EXCEPT ![bi] = block]]

\* ------------------------------------------------------------ create_block

\* Faulty variant: the new range is compared for equality with the existing ones.
create_block_overlap_equal(cidr, blocks) ==
    \E i \in DOMAIN blocks : blocks[i].cidr = cidr

\* bool(IPSet([str(block.cidr)]) & block_cidrs)
create_block_overlap(cidr, blocks) ==
    (IPSet(<<cidr>>) \cap IPSet([i \in DOMAIN blocks |-> blocks[i].cidr])) # {}

create_block_body(st, r) ==
    IF r.caller \notin Admins THEN Raise("This API is admin restricted.")
    ELSE Let(cosmos_query(st, r.space), LAMBDA space_query :
        IF space_query = <<>> THEN Raise("Invalid space name.")
        ELSE LET target_space == space_query[1]
                 new_block == [name |-> r.name, cidr |-> r.cidr,
                               vnets |-> <<>>, resv |-> <<>>]
             IN  IF create_block_overlap(r.cidr, target_space.blocks)
                 THEN Raise("New block cannot overlap existing blocks.")
                 ELSE Write(space_query[1],
                            [target_space EXCEPT
                               !.blocks = Append(target_space.blocks, new_block)],
                            NoVal))

\* ------------------------------------------------------------ delete_block

delete_block_body(st, r) ==
    IF r.caller \notin Admins THEN Raise("This API is admin restricted.")
    ELSE Let(cosmos_query(st, r.space), LAMBDA space_query :
        IF space_query = <<>> THEN Raise("Invalid space name.")
        ELSE Let(find_block(space_query[1].blocks, r.block), LAMBDA bi :
            IF bi = 0 THEN Raise("Invalid block name.")
            ELSE LET target_space == space_query[1]
                     target_block == target_space.blocks[bi]
                     index == IndexOf(target_space.blocks,
                                {x \in Range(target_space.blocks) : x.name = r.block})
                 IN  IF ~r.force /\ (Len(target_block.vnets) > 0
                                     \/ Len(target_block.resv) > 0)
                     THEN Raise("Cannot delete block while it contains vNets or reservations.")
                     \* del target_space['blocks'][None]
                     ELSE IF index = 0 THEN Raise("TypeError")
                     ELSE Write(space_query[1],
                                [target_space EXCEPT
                                   !.blocks = Del(target_space.blocks, index)],
                                NoVal)))

\* ------------------------------------------------------- create_block_vnet

\* next((x for x in prefixes if IPNetwork(x) in IPNetwork(block['cidr'])), None)
\* as a list of zero or one entries.
target_cidr(v, block_cidr) ==
    LET i == IndexOf(v.prefixes, {x \in Range(v.prefixes) : InNet(x, block_cidr)})
    IN  IF i = 0 THEN <<>> ELSE <<v.prefixes[i]>>

\* block_vnet_cidrs: the clipped prefixes of the networks already in the block.
\* Faulty variant: the prefixes of the attached networks are not filtered to the
\* block.
block_vnet_cidrs_unclipped(block) ==
    Concat([i \in DOMAIN block.vnets |-> clipped_none(block.vnets[i].id, block.cidr)])

block_vnet_cidrs(block) ==
    Concat([i \in DOMAIN block.vnets |-> clipped(block.vnets[i].id, block.cidr)])

create_block_vnet_body(st, r) ==
    IF r.caller \notin Admins THEN Raise("API restricted to admins.")
    ELSE Let(cosmos_query(st, r.space), LAMBDA space_query :
        IF space_query = <<>> THEN Raise("Invalid space name.")
        ELSE Let(find_block(space_query[1].blocks, r.block), LAMBDA bi :
            IF bi = 0 THEN Raise("Invalid block name.")
            ELSE LET target_space == space_query[1]
                     target_block == target_space.blocks[bi]
                     target_vnet == find_vnet(r.vnet)
                 IN  IF \E i \in DOMAIN target_block.vnets :
                           target_block.vnets[i].id = r.vnet
                     THEN Raise("vNet already exists in block.")
                     ELSE IF target_vnet = <<>> THEN Raise("Invalid vNet ID.")
                     ELSE LET tc == target_cidr(target_vnet[1], target_block.cidr)
                          IN  IF tc = <<>>
                              THEN Raise("vNet CIDR not within block CIDR.")
                              ELSE IF (IPSet(block_vnet_cidrs(target_block))
                                          \cap IPSet(tc)) # {}
                              THEN Raise("Block already contains vNet(s) within the CIDR range of target vNet.")
                              ELSE Write(space_query[1],
                                         WithBlock(target_space, bi,
                                           [target_block EXCEPT !.vnets =
                                              Append(@, [id |-> r.vnet, active |-> TRUE])]),
                                         NoVal)))

\* ------------------------------------------------------ update_block_vnets

\* The loop over the requested ids: the running vnet_ipset, and the flags and
\* lists it leaves behind.
RECURSIVE vnets_scan(_, _, _)
vnets_scan(vnets, block_cidr, acc) ==
    IF vnets = <<>> THEN acc
    ELSE LET v == Head(vnets)
             target_vnet == find_vnet(v)
             tc == IF target_vnet = <<>> THEN <<>> ELSE target_cidr(target_vnet[1], block_cidr)
             next == IF target_vnet = <<>>
                       THEN [acc EXCEPT !.invalid_vnets = Append(@, v)]
                     ELSE IF tc = <<>>
                       THEN [acc EXCEPT !.outside_block_cidr = Append(@, v)]
                     ELSE IF (acc.vnet_ipset \cap IPSet(tc)) = {}
                       THEN [acc EXCEPT !.vnet_ipset = @ \cup IPSet(tc)]
                     ELSE [acc EXCEPT !.vnet_overlap = TRUE]
         IN  Let(next, LAMBDA a : vnets_scan(Tail(vnets), block_cidr, a))

update_block_vnets_body(st, r) ==
    IF r.caller \notin Admins THEN Raise("API restricted to admins.")
    ELSE Let(cosmos_query(st, r.space), LAMBDA space_query :
        IF space_query = <<>> THEN Raise("Invalid space name.")
        ELSE Let(find_block(space_query[1].blocks, r.block), LAMBDA bi :
            IF bi = 0 THEN Raise("Invalid block name.")
            ELSE LET target_space == space_query[1]
                     target_block == target_space.blocks[bi]
                 IN  Let(vnets_scan(r.vnets, target_block.cidr,
                           [invalid_vnets |-> <<>>, outside_block_cidr |-> <<>>,
                            vnet_ipset |-> {}, vnet_overlap |-> FALSE]),
                         LAMBDA scan :
                     IF Len(r.vnets) # Cardinality(Range(r.vnets))
                     THEN Raise("List contains duplicate vNets.")
                     ELSE IF scan.vnet_overlap
                     THEN Raise("vNet list contains overlapping CIDRs.")
                     ELSE IF Len(scan.outside_block_cidr) > 0
                     THEN Raise("vNet CIDR(s) not within Block CIDR")
                     ELSE IF Len(scan.invalid_vnets) > 0
                     THEN Raise("Invalid vNet ID(s)")
                     ELSE Write(space_query[1],
                                WithBlock(target_space, bi,
                                  [target_block EXCEPT !.vnets =
                                     [i \in DOMAIN r.vnets |->
                                        [id |-> r.vnets[i], active |-> TRUE]]]),
                                NoVal))))

\* ------------------------------------------------------ delete_block_vnets

\* for id in ids: index = next(i for i, item in enumerate(items) if
\* item['id'] == id); del items[index]
\* Faulty variant: only the first id of the list is removed.
remove_ids_head(items, ids) ==
    IF ids = <<>> THEN items
    ELSE Del(items, IndexOf(items, {x \in Range(items) : x.id = Head(ids)}))

RECURSIVE remove_ids(_, _)
remove_ids(items, ids) ==
    IF ids = <<>> THEN items
    ELSE Let(Del(items, IndexOf(items, {x \in Range(items) : x.id = Head(ids)})),
             LAMBDA rest : remove_ids(rest, Tail(ids)))

delete_block_vnets_body(st, r) ==
    IF r.caller \notin Admins THEN Raise("API restricted to admins.")
    ELSE Let(cosmos_query(st, r.space), LAMBDA space_query :
        IF space_query = <<>> THEN Raise("Invalid space name.")
        ELSE Let(find_block(space_query[1].blocks, r.block), LAMBDA bi :
            IF bi = 0 THEN Raise("Invalid block name.")
            ELSE LET target_space == space_query[1]
                     target_block == target_space.blocks[bi]
                     current_vnets == {target_block.vnets[i].id :
                                         i \in DOMAIN target_block.vnets}
                 IN  IF Len(r.vnets) # Cardinality(Range(r.vnets))
                     THEN Raise("List contains one or more duplicate vNet id's.")
                     ELSE IF ~(Range(r.vnets) \subseteq current_vnets)
                     THEN Raise("List contains one or more invalid vNet id's.")
                     ELSE Write(space_query[1],
                                WithBlock(target_space, bi,
                                  [target_block EXCEPT !.vnets =
                                     remove_ids(@, r.vnets)]),
                                NoVal)))

\* ---------------------------------------------------------- CIDR allocator

\* Faulty variant: the reservations are left out of the consumed ranges.
block_all_cidrs_vnets_only(block) == block_vnet_cidrs(block)

\* block_all_cidrs: the clipped prefixes of the block's networks, then the
\* CIDRs of its reservations.
block_all_cidrs(block) ==
    block_vnet_cidrs(block) \o [i \in DOMAIN block.resv |-> block.resv[i].cidr]

\* Faulty variant: nothing of the block counts as consumed.
available_set_whole(block) == IPSet(<<block.cidr>>)

\* Faulty variant: the entry listed last among the consumed ranges is not
\* counted.
available_set_but_last(block) ==
    Let(block_all_cidrs(block), LAMBDA all :
        SymDiff(IPSet(<<block.cidr>>),
                IPSet([i \in 1..(Len(all) - 1) |-> all[i]])))

\* available_set = block_set ^ reserved_set
available_set(block) == SymDiff(IPSet(<<block.cidr>>), IPSet(block_all_cidrs(block)))

\* Faulty variant: the slicer is never reversed.
sliced_cidrs_forward(block, reverse_search) ==
    Let(available_set(block), iter_cidrs)

\* available_set.iter_cidrs()[available_slicer]
sliced_cidrs(block, reverse_search) ==
    Let(available_set(block), LAMBDA S :
        IF reverse_search THEN Let(iter_cidrs(S), Reverse) ELSE iter_cidrs(S))

\* The free network the request is carved from: [kind |-> "net", net |-> it],
\* [kind |-> "None"] when next() finds none, or [kind |-> "ValueError"] when
\* max() is given an empty sequence.
NoNet == [base |-> 0, len |-> 0]

\* Faulty variant: a free network of exactly the requested size is not kept.
fitting_strict(cands, size) == Filter(cands, {x \in Range(cands) : x.len < size})

\* list(filter(lambda x: x.prefixlen <= size, cands))
fitting(cands, size) == Filter(cands, {x \in Range(cands) : x.len <= size})

\* Faulty variant: min_mask is the shortest mask, so the widest fitting
\* network is taken.
available_block_widest(block, size, reverse_search, smallest_cidr) ==
    Let(Let(sliced_cidrs(block, reverse_search), LAMBDA cands : fitting(cands, size)),
        LAMBDA cidr_list :
            IF cidr_list = <<>>
            THEN [kind |-> IF smallest_cidr THEN "ValueError" ELSE "None", net |-> NoNet]
            ELSE LET min_mask == CHOOSE l \in {cidr_list[i].len : i \in DOMAIN cidr_list} :
                                    \A i \in DOMAIN cidr_list : l <= cidr_list[i].len
                     i == IndexOf(cidr_list, {x \in Range(cidr_list) : x.len = min_mask})
                 IN  [kind |-> "net", net |-> cidr_list[IF smallest_cidr THEN i ELSE 1]])

available_block(block, size, reverse_search, smallest_cidr) ==
    Let(Let(sliced_cidrs(block, reverse_search), LAMBDA cands : fitting(cands, size)),
        LAMBDA cidr_list :
            IF smallest_cidr
            THEN IF cidr_list = <<>> THEN [kind |-> "ValueError", net |-> NoNet]
                 ELSE LET min_mask == Max({cidr_list[i].len : i \in DOMAIN cidr_list})
                          i == IndexOf(cidr_list, {x \in Range(cidr_list) : x.len = min_mask})
                      IN  [kind |-> "net", net |-> cidr_list[i]]
            ELSE IF cidr_list = <<>> THEN [kind |-> "None", net |-> NoNet]
                 ELSE [kind |-> "net", net |-> cidr_list[1]])

\* Faulty variant: the first sub-network is taken whatever the direction.
next_cidr_first(net, size, reverse_search) == subnet(net, size)[1]

\* list(available_block.subnet(req.size))[next_selector]
next_cidr(net, size, reverse_search) ==
    LET subs == subnet(net, size)
    IN  IF reverse_search THEN subs[Len(subs)] ELSE subs[1]

\* Faulty variant: every record gets the same id.
new_cidr_same_id(id, cidr, creator_id) ==
    [id |-> 1, cidr |-> cidr, userId |-> creator_id, status |-> "wait"]

\* new_cidr; createdOn (time.time()) is read by no handler and is left out.
new_cidr(id, cidr, creator_id) ==
    [id |-> id, cidr |-> cidr, userId |-> creator_id, status |-> "wait"]

\* ---------------------------------------------- create_block_reservation

create_block_reservation_body(st, r, uuid) ==
    Let(cosmos_query(st, r.space), LAMBDA space_query :
        IF space_query = <<>> THEN Raise("Invalid space name.")
        ELSE Let(find_block(space_query[1].blocks, r.block), LAMBDA bi :
            IF bi = 0 THEN Raise("Invalid block name.")
            ELSE LET target_space == space_query[1]
                     target_block == target_space.blocks[bi]
                 IN  Let(available_block(target_block, r.size,
                                         r.reverse_search, r.smallest_cidr),
                         LAMBDA ab :
                     IF ab.kind = "ValueError" THEN Raise("ValueError")
                     ELSE IF ab.kind = "None"
                     THEN Raise("Network of requested size unavailable in target block.")
                     ELSE LET nc == new_cidr(uuid,
                                       next_cidr(ab.net, r.size, r.reverse_search),
                                       r.caller)
                          IN  Write(space_query[1],
                                    WithBlock(target_space, bi,
                                      [target_block EXCEPT !.resv = Append(@, nc)]),
                                    [id |-> nc.id, cidr |-> nc.cidr, userId |-> nc.userId,
                                     status |-> nc.status, space |-> target_space.name,
                                     block |-> target_block.name]))))

\* ---------------------------------------- create_multi_block_reservation

\* The loop over req.blocks: the first listed block whose free set yields a
\* network, [kind |-> "None"] when none does, [kind |-> "ValueError"] when
\* max() is given an empty sequence on the way.
RECURSIVE blocks_scan(_, _, _)
blocks_scan(blocks, names, r) ==
    IF names = <<>> THEN [kind |-> "None", net |-> NoNet, bi |-> 0, name |-> ""]
    ELSE Let(find_block(blocks, Head(names)), LAMBDA bi :
         Let(available_block(blocks[bi], r.size, r.reverse_search, r.smallest_cidr),
             LAMBDA ab :
             IF ab.kind = "ValueError"
             THEN [kind |-> "ValueError", net |-> NoNet, bi |-> 0, name |-> ""]
             ELSE IF ab.kind = "net"
             THEN [kind |-> "net", net |-> ab.net, bi |-> bi, name |-> Head(names)]
             ELSE blocks_scan(blocks, Tail(names), r)))

create_multi_block_reservation_body(st, r, uuid) ==
    Let(cosmos_query(st, r.space), LAMBDA space_query :
        IF space_query = <<>> THEN Raise("Invalid space name.")
        ELSE LET target_space == space_query[1]
                 space_blocks == {target_space.blocks[i].name : i \in DOMAIN target_space.blocks}
             IN  IF Range(r.blocks) \ space_blocks # {}
                 THEN Raise("Invalid Block(s) in Block list")
                 ELSE Let(blocks_scan(target_space.blocks, r.blocks, r), LAMBDA ab :
                     IF ab.kind = "ValueError" THEN Raise("ValueError")
                     ELSE IF ab.kind = "None"
                     THEN Raise("Network of requested size unavailable in target block(s).")
                     ELSE LET target_block == target_space.blocks[ab.bi]
                              nc == new_cidr(uuid,
                                       next_cidr(ab.net, r.size, r.reverse_search),
                                       r.caller)
                          IN  Write(space_query[1],
                                    WithBlock(target_space, ab.bi,
                                      [target_block EXCEPT !.resv = Append(@, nc)]),
                                    [id |-> nc.id, cidr |-> nc.cidr, userId |-> nc.userId,
                                     status |-> nc.status, space |-> target_space.name,
                                     block |-> ab.name])))

\* ---------------------------------------------- delete_block_reservations

\* Faulty variant: only the first listed id is checked for ownership.
not_owned_first(resv, ids, user_name) ==
    Filter(resv, {x \in Range(resv) : x.id = ids[1] /\ x.userId # user_name})

\* list(filter(lambda x: x['id'] in req and x['userId'] != user_name, resv))
not_owned(resv, ids, user_name) ==
    Filter(resv, {x \in Range(resv) : x.id \in Range(ids) /\ x.userId # user_name})

delete_block_reservations_body(st, r) ==
    Let(cosmos_query(st, r.space), LAMBDA space_query :
        IF space_query = <<>> THEN Raise("Invalid space name.")
        ELSE Let(find_block(space_query[1].blocks, r.block), LAMBDA bi :
            IF bi = 0 THEN Raise("Invalid block name.")
            ELSE LET target_space == space_query[1]
                     target_block == target_space.blocks[bi]
                     current_reservations == {target_block.resv[i].id :
                                                i \in DOMAIN target_block.resv}
                 IN  IF Len(r.ids) # Cardinality(Range(r.ids))
                     THEN Raise("List contains one or more duplicate id's.")
                     ELSE IF ~(Range(r.ids) \subseteq current_reservations)
                     THEN Raise("List contains one or more invalid id's.")
                     ELSE IF r.caller \notin Admins
                             /\ not_owned(target_block.resv, r.ids, r.caller) # <<>>
                     THEN Raise("Users can only delete their own reservations.")
                     ELSE Write(space_query[1],
                                WithBlock(target_space, bi,
                                  [target_block EXCEPT !.resv = remove_ids(@, r.ids)]),
                                NoVal)))

\* ------------------------------------------------------------ create_space

\* cosmos_query("SELECT * FROM c WHERE c.type = 'space'", tenant_id)
all_spaces(st) == DocsInOrder(st, DOMAIN st)

\* next((x for x in space_query if x['name'].lower() == space.name.lower()), None)
duplicate(space_query, name) ==
    \E i \in DOMAIN space_query : Lower(space_query[i].name) = Lower(name)

create_space_body(st, r, uuid) ==
    IF r.caller \notin Admins THEN Raise("This API is admin restricted.")
    ELSE Let(all_spaces(st), LAMBDA space_query :
        IF duplicate(space_query, r.name) THEN Raise("Space name must be unique.")
        ELSE LET new_space == [id |-> uuid, name |-> r.name, desc |-> r.desc,
                               blocks |-> <<>>, etag |-> 0]
             IN  Write(NoDoc, new_space, new_space))

\* ------------------------------------------------------------ update_space

\* re.match(target['valid'], str(item['value'])) on the values used here: a
\* name is 1 to 16 alphanumerics, a description 1 to 32 alphanumerics, spaces,
\* periods, underscores and hyphens.
PatchValues == {"s1", "S1", "s2", "s 1", ""}

valid(path, value) ==
    IF path = "/name" THEN value \in {"s1", "S1", "s2"}
    ELSE value \in {"s1", "S1", "s2", "s 1"}

\* allowed_ops: the (op, path) pairs a patch item must match to be kept.
allowed_ops == {<<"replace", "/name">>, <<"replace", "/desc">>}

\* scrub_space_patch: the allowed items, or the error of the first allowed
\* item whose value is not valid.
RECURSIVE scrub_space_patch(_)
scrub_space_patch(patch) ==
    IF patch = <<>> THEN [err |-> "", items |-> <<>>]
    ELSE LET item == Head(patch)
         IN  IF <<item.op, item.path>> \in allowed_ops /\ ~valid(item.path, item.value)
             THEN [err |-> IF item.path = "/name"
                           THEN "space name can be a maximum of 16 characters and may contain alphanumerics."
                           ELSE "space description can be a maximum of 32 characters and may contain alphanumerics, spaces, underscores, hypens, and periods.",
                   items |-> <<>>]
             ELSE Let(scrub_space_patch(Tail(patch)), LAMBDA rest :
                  IF rest.err # "" THEN rest
                  ELSE IF <<item.op, item.path>> \in allowed_ops
                  THEN [rest EXCEPT !.items = <<item>> \o @]
                  ELSE rest)

\* scrubbed_patch.apply(target_space)
RECURSIVE apply(_, _)
apply(items, doc) ==
    IF items = <<>> THEN doc
    ELSE apply(Tail(items),
               IF Head(items).path = "/name" THEN [doc EXCEPT !.name = Head(items).value]
               ELSE [doc EXCEPT !.desc = Head(items).value])

update_space_body(st, r) ==
    IF r.caller \notin Admins THEN Raise("This API is admin restricted.")
    ELSE Let(cosmos_query(st, r.space), LAMBDA space_query :
        IF space_query = <<>> THEN Raise("Invalid space name.")
        ELSE Let(scrub_space_patch(r.updates), LAMBDA scrubbed_patch :
            IF scrubbed_patch.err # "" THEN Raise(scrubbed_patch.err)
            ELSE Let(apply(scrubbed_patch.items, space_query[1]), LAMBDA update_space :
                Write(space_query[1], update_space, update_space))))

\* ------------------------------------------------------------ delete_space

delete_space_body(st, r) ==
    IF r.caller \notin Admins THEN Raise("This API is admin restricted.")
    ELSE Let(cosmos_query(st, r.space), LAMBDA space_query :
        IF space_query = <<>> THEN Raise("Invalid space name.")
        ELSE IF ~r.force /\ Len(space_query[1].blocks) > 0
        THEN Raise("Cannot delete space while it contains blocks.")
        ELSE Write(space_query[1], NoDoc, NoVal))

\* ------------------------------------------------- get_space, get_spaces

RECURSIVE SumSeq(_)
SumSeq(s) == IF s = <<>> THEN 0 ELSE Head(s) + SumSeq(Tail(s))

\* next((i for i in vnets if i['id'] == vnet['id']), None) as a list of zero
\* or one entries: the ids are compared as they are.
find_vnet_exact(id) ==
    LET i == IndexOf(vnet_list, {x \in Range(vnet_list) : x.id = id})
    IN  IF i = 0 THEN <<>> ELSE <<vnet_list[i]>>

\* expanded_vnets: the directory entries of the attachments found.
expanded_vnets(block) ==
    Concat([i \in DOMAIN block.vnets |-> find_vnet_exact(block.vnets[i].id)])

\* vnet_prefixes of the k-th network the loop of a block visits.
vnet_prefixes(block, expand, k) ==
    LET target_vnet == IF expand THEN <<expanded_vnets(block)[k]>>
                       ELSE find_vnet_exact(block.vnets[k].id)
    IN  IF target_vnet = <<>> THEN <<>>
        ELSE Filter(target_vnet[1].prefixes,
                    {x \in Range(target_vnet[1].prefixes) : InNet(x, block.cidr)})

Sizes(cidrs) == SumSeq([i \in DOMAIN cidrs |-> Size(cidrs[i])])

\* block['used'] after the loop over block['vnets'].
block_used(block, expand) ==
    LET n == IF expand THEN Len(expanded_vnets(block)) ELSE Len(block.vnets)
    IN  SumSeq([k \in 1..n |-> Sizes(vnet_prefixes(block, expand, k))])

\* The entry of the directory as the response shows it. The loops write size
\* and used into the directory's own entry, which every block that has the
\* network attached holds: the response shows what the last of the visited
\* blocks with that network wrote.
expanded_vnet(v, visited, utilization) ==
    IF ~utilization THEN v
    ELSE LET holders == {i \in DOMAIN visited :
                           \E k \in DOMAIN visited[i].vnets : visited[i].vnets[k].id = v.id}
             last == visited[Max(holders)]
         IN  [id |-> v.id, prefixes |-> v.prefixes,
              size |-> Sizes(Filter(v.prefixes,
                               {x \in Range(v.prefixes) : InNet(x, last.cidr)})),
              used |-> SumSeq([i \in DOMAIN v.subnets |-> Size(v.subnets[i].prefix)]),
              subnets |-> [i \in DOMAIN v.subnets |->
                             [prefix |-> v.subnets[i].prefix,
                              size |-> Size(v.subnets[i].prefix)]]]

\* One block of the response.
block_view(block, visited, expand, utilization, caller) ==
    LET resv == IF caller \in Admins THEN block.resv
                ELSE Filter(block.resv, {x \in Range(block.resv) : x.userId = caller})
        vnets == IF expand
                 THEN Let(expanded_vnets(block), LAMBDA e :
                          [k \in DOMAIN e |-> expanded_vnet(e[k], visited, utilization)])
                 ELSE block.vnets
        base == [name |-> block.name, cidr |-> block.cidr, vnets |-> vnets, resv |-> resv]
    IN  IF utilization
        THEN base @@ [size |-> Size(block.cidr), used |-> block_used(block, expand)]
        ELSE base

\* One Space of the response; visited are the blocks all the loops of the call
\* go through, in their order.
space_view(space, visited, expand, utilization, caller) ==
    LET blocks == [i \in DOMAIN space.blocks |->
                     block_view(space.blocks[i], visited, expand, utilization, caller)]
        base == [name |-> space.name, desc |-> space.desc, blocks |-> blocks]
    IN  IF utilization
        THEN base @@ [size |-> SumSeq([i \in DOMAIN blocks |-> blocks[i].size]),
                      used |-> SumSeq([i \in DOMAIN blocks |-> blocks[i].used])]
        ELSE base

Return(v) == [err |-> "", old |-> NoDoc, new |-> NoDoc, val |-> v]

get_space_body(st, r) ==
    IF r.expand /\ r.caller \notin Admins
    THEN Raise("Expand parameter can only be used by admins.")
    ELSE Let(cosmos_query(st, r.space), LAMBDA space_query :
        IF space_query = <<>> THEN Raise("Invalid space name.")
        ELSE Return(space_view(space_query[1], space_query[1].blocks,
                               r.expand, r.utilization, r.caller)))

get_spaces_body(st, r) ==
    IF r.expand /\ r.caller \notin Admins
    THEN Raise("Expand parameter can only be used by admins.")
    ELSE Let(all_spaces(st), LAMBDA space_query :
        Let(Concat([i \in DOMAIN space_query |-> space_query[i].blocks]), LAMBDA visited :
            Return([i \in DOMAIN space_query |->
                      space_view(space_query[i], visited,
                                 r.expand, r.utilization, r.caller)])))

\* ------------------------------------------------------------------- admin

\* cosmos_query("SELECT * FROM c WHERE c.type = 'admin'", tenant_id), in id
\* order.
admin_query(st) == DocsInOrder(st, {i \in DOMAIN st : st[i].type = "admin"})

\* new_admin_db: the record handed to cosmos_upsert, under a new uuid.
new_admin_db(admin_list, exclusion_list, uuid) ==
    [id |-> uuid, type |-> "admin", admins |-> admin_list,
     exclusions |-> exclusion_list, etag |-> 0]

\* The subscriptions arg_query(None, True, argquery.SUBSCRIPTION) lists.
Subscriptions == {"sub1", "sub2"}

\* Faulty variant: the admin is appended without looking for its id in the list.
create_admin_body_unchecked(st, r, uuid) ==
    IF r.caller \notin Admins THEN Raise("API restricted to admins.")
    ELSE Let(admin_query(st), LAMBDA q :
        IF q = <<>> THEN Write(NoDoc, new_admin_db(<<r.admin>>, {}, uuid), NoVal)
        ELSE Write(q[1], [q[1] EXCEPT !.admins = Append(@, r.admin)], NoVal))

\* A handler body that finds no record ends with new_admin_db, one that finds
\* a record with cosmos_replace(admin_query[0], admin_data).
create_admin_body(st, r, uuid) ==
    IF r.caller \notin Admins THEN Raise("API restricted to admins.")
    ELSE Let(admin_query(st), LAMBDA q :
        IF q = <<>> THEN Write(NoDoc, new_admin_db(<<r.admin>>, {}, uuid), NoVal)
        ELSE IF \E x \in Range(q[1].admins) : x.id = r.admin.id
             THEN Raise("User is already an admin.")
             ELSE Write(q[1], [q[1] EXCEPT !.admins = Append(@, r.admin)], NoVal))

update_admins_body(st, r, uuid) ==
    IF r.caller \notin Admins THEN Raise("API restricted to admins.")
    ELSE IF Cardinality({r.admin_list[i].id : i \in DOMAIN r.admin_list}) # Len(r.admin_list)
    THEN Raise("List contains one or more duplicate objectId's.")
    ELSE Let(admin_query(st), LAMBDA q :
        IF q = <<>> THEN Write(NoDoc, new_admin_db(r.admin_list, {}, uuid), NoVal)
        ELSE Write(q[1], [q[1] EXCEPT !.admins = r.admin_list], NoVal))

\* list(set(...)): the exclusions are kept as a set, their order in the stored
\* list is left out.
add_exclusions_body(st, r, uuid) ==
    IF r.caller \notin Admins THEN Raise("API restricted to admins.")
    ELSE IF Range(r.exclusions) \ Subscriptions # {}
    THEN Raise("One or more invalid subscriptions id's provided.")
    ELSE Let(admin_query(st), LAMBDA q :
        IF q = <<>> THEN Write(NoDoc, new_admin_db(<<>>, Range(r.exclusions), uuid), NoVal)
        ELSE Write(q[1], [q[1] EXCEPT !.exclusions = @ \cup Range(r.exclusions)], NoVal))

\* What the caller of a handler gets when it indexes an empty query result.
IndexError == "IndexError"

\* delete_admin: the test is "admin_query is None", which the empty list of a
\* query without results does not meet, so admin_query[0] is evaluated.
delete_admin_body(st, r) ==
    IF r.caller \notin Admins THEN Raise("API restricted to admins.")
    ELSE Let(admin_query(st), LAMBDA q :
        IF q = <<>> THEN Raise(IndexError)
        ELSE Let(IndexOf(q[1].admins, {x \in Range(q[1].admins) : x.id = r.objectId}),
                 LAMBDA admin_index :
            IF admin_index = 0 THEN Raise("Invalid admin objectId.")
            ELSE Write(q[1], [q[1] EXCEPT !.admins = Del(@, admin_index)], NoVal)))

remove_exclusion_body(st, r) ==
    IF r.caller \notin Admins THEN Raise("API restricted to admins.")
    ELSE Let(admin_query(st), LAMBDA q :
        IF q = <<>> THEN Raise("Subscription id not found.")
        ELSE IF r.subscriptionId \notin q[1].exclusions THEN Raise("Invalid subscription id.")
        ELSE Write(q[1], [q[1] EXCEPT !.exclusions = @ \ {r.subscriptionId}], NoVal))

\* ------------------------------------------------------- request handling

\* error_msg of each handler's @cosmos_retry decorator.
error_msg(api) ==
    CASE api = "create_block" -> "Error creating block, please try again."
      [] api = "delete_block" -> "Error deleting block, please try again."
      [] api = "create_block_vnet" -> "Error adding vNet to block, please try again."
      [] api = "update_block_vnets" -> "Error updating block vNets, please try again."
      [] api = "delete_block_vnets" -> "Error removing block vNet(s), please try again."
      [] api = "create_block_reservation" -> "Error creating cidr reservation, please try again."
      [] api = "create_multi_block_reservation" -> "Error creating cidr reservation, please try again."
      [] api = "delete_block_reservations" -> "Error removing block reservation(s), please try again."
      [] api = "create_space" -> "Error creating space, please try again."
      [] api = "update_space" -> "Error updating space, please try again."
      [] api = "delete_space" -> "Error deleting space, please try again."
      [] api = "create_admin" -> "Error creating admin, please try again."
      [] api = "update_admins" -> "Error updating admins, please try again."
      [] api = "add_exclusions" -> "Error adding exclusion(s), please try again."
      [] api = "delete_admin" -> "Error removing admin, please try again."
      [] api = "remove_exclusion" -> "Error removing exclusion, please try again."

\* The requests of R that slot p may run handler api on now: the one it is
\* serving, when the retry wrapper runs the handler again, or any new one,
\* when the slot is free.
Pending(p, R, api) ==
    IF pc[p] = "run" THEN {r \in {req[p]} : r.api = api}
    ELSE IF pc[p] = "idle" THEN {r \in R : r.api = api}
    ELSE {}

\* The new requests a specification accepts: those of R, until some document
\* has been written cap times.
Open(R, cap) == IF \A i \in DOMAIN store : store[i].etag < cap THEN R ELSE {}

\* One run of a handler body for request r, from its cosmos_query to the store
\* call it ends with (at: "write" for cosmos_replace, "upsert" for
\* cosmos_upsert, "delete" for cosmos_delete); a new request enters the retry
\* wrapper first (_tries = max_retry). An exception other than the
\* access-condition failure passes through the wrapper to the caller.
AttemptTo(p, r, out, at) ==
    /\ req' = [req EXCEPT ![p] = r]
    /\ tries' = [tries EXCEPT ![p] = IF pc[p] = "run" THEN tries[p] ELSE max_retry]
    /\ IF out.err # ""
       THEN /\ pc' = [pc EXCEPT ![p] = "done"]
            /\ result' = [result EXCEPT ![p] = out.err]
       ELSE /\ pc' = [pc EXCEPT ![p] = at]
            /\ result' = [result EXCEPT ![p] = ""]
    /\ fetched' = [fetched EXCEPT ![p] = out.old]
    /\ target' = [target EXCEPT ![p] = out.new]
    /\ val' = [val EXCEPT ![p] = out.val]
    /\ UNCHANGED store

\* The handlers that end with cosmos_replace.
Attempt(p, r, out) == AttemptTo(p, r, out, "write")

create_block(p, R) ==
    \E r \in Pending(p, R, "create_block") :
        \E out \in {create_block_body(store, r)} :
            /\ Attempt(p, r, out)
            /\ UNCHANGED nextId

delete_block(p, R) ==
    \E r \in Pending(p, R, "delete_block") :
        \E out \in {delete_block_body(store, r)} :
            /\ Attempt(p, r, out)
            /\ UNCHANGED nextId

create_block_vnet(p, R) ==
    \E r \in Pending(p, R, "create_block_vnet") :
        \E out \in {create_block_vnet_body(store, r)} :
            /\ Attempt(p, r, out)
            /\ UNCHANGED nextId

update_block_vnets(p, R) ==
    \E r \in Pending(p, R, "update_block_vnets") :
        \E out \in {update_block_vnets_body(store, r)} :
            /\ Attempt(p, r, out)
            /\ UNCHANGED nextId

delete_block_vnets(p, R) ==
    \E r \in Pending(p, R, "delete_block_vnets") :
        \E out \in {delete_block_vnets_body(store, r)} :
            /\ Attempt(p, r, out)
            /\ UNCHANGED nextId

\* shortuuid.uuid() is reached only when a network was found; it hands out
\* the next id never handed out before. A new request that takes an id is
\* accepted while fewer than MaxIds have been handed out.
create_block_reservation(p, R) ==
    \E r \in Pending(p, R, "create_block_reservation") :
        \E out \in {create_block_reservation_body(store, r, nextId + 1)} :
            /\ pc[p] = "run" \/ out.err # "" \/ nextId < MaxIds
            /\ Attempt(p, r, out)
            /\ nextId' = IF out.err = "" THEN nextId + 1 ELSE nextId

create_multi_block_reservation(p, R) ==
    \E r \in Pending(p, R, "create_multi_block_reservation") :
        \E out \in {create_multi_block_reservation_body(store, r, nextId + 1)} :
            /\ pc[p] = "run" \/ out.err # "" \/ nextId < MaxIds
            /\ Attempt(p, r, out)
            /\ nextId' = IF out.err = "" THEN nextId + 1 ELSE nextId

delete_block_reservations(p, R) ==
    \E r \in Pending(p, R, "delete_block_reservations") :
        \E out \in {delete_block_reservations_body(store, r)} :
            /\ Attempt(p, r, out)
            /\ UNCHANGED nextId

\* uuid.uuid4() hands out the next id never handed out before. A new request
\* that takes an id is accepted while fewer than MaxIds have been handed out.
create_space(p, R) ==
    \E r \in Pending(p, R, "create_space") :
        \E out \in {create_space_body(store, r, nextId + 1)} :
            /\ out.err # "" \/ nextId < MaxIds
            /\ AttemptTo(p, r, out, "upsert")
            /\ nextId' = IF out.err = "" THEN nextId + 1 ELSE nextId

update_space(p, R) ==
    \E r \in Pending(p, R, "update_space") :
        \E out \in {update_space_body(store, r)} :
            /\ Attempt(p, r, out)
            /\ UNCHANGED nextId

delete_space(p, R) ==
    \E r \in Pending(p, R, "delete_space") :
        \E out \in {delete_space_body(store, r)} :
            /\ AttemptTo(p, r, out, "delete")
            /\ UNCHANGED nextId

\* cosmos_upsert(new_space): the document is stored under its id, with no
\* condition; the handler returns.
cosmos_upsert(p) ==
    /\ pc[p] = "upsert"
    /\ store' = (target[p].id :> target[p]) @@ store
    /\ pc' = [pc EXCEPT ![p] = "done"]
    /\ result' = [result EXCEPT ![p] = "ok"]
    /\ UNCHANGED <<nextId, req, tries, fetched, target, val>>

\* What the caller of a delete gets when the document is no longer stored.
NotFound == "CosmosResourceNotFoundError"

\* cosmos_delete(target_space, tenant_id): the document stored under the id is
\* removed, whatever its version; when none is stored the call returns or
\* fails.
cosmos_delete(p) ==
    /\ pc[p] = "delete"
    /\ store' = [i \in DOMAIN store \ {fetched[p].id} |-> store[i]]
    /\ pc' = [pc EXCEPT ![p] = "done"]
    /\ \E res \in IF fetched[p].id \in DOMAIN store THEN {"ok"} ELSE {"ok", NotFound} :
          result' = [result EXCEPT ![p] = res]
    /\ UNCHANGED <<nextId, req, tries, fetched, target, val>>

\* The response has gone to the caller: the slot is free for the next request.
respond(p) ==
    /\ pc[p] = "done"
    /\ pc' = [pc EXCEPT ![p] = "idle"]
    /\ req' = [req EXCEPT ![p] = NoReq]
    /\ tries' = [tries EXCEPT ![p] = 0]
    /\ fetched' = [fetched EXCEPT ![p] = NoDoc]
    /\ target' = [target EXCEPT ![p] = NoDoc]
    /\ val' = [val EXCEPT ![p] = NoVal]
    /\ result' = [result EXCEPT ![p] = ""]
    /\ UNCHANGED <<store, nextId>>

\* Faulty variant: the write is accepted whatever version the caller read.
etag_matches_any(st, old) == old.id \in DOMAIN st

\* The access condition of cosmos_replace(old, new): the stored document still
\* carries the etag that old was read with.
etag_matches(st, old) == old.id \in DOMAIN st /\ st[old.id].etag = old.etag

\* Faulty variant: after the accepted write the wrapper runs the handler again.
cosmos_replace_again(p) ==
    /\ pc[p] = "write"
    /\ etag_matches(store, fetched[p])
    /\ store' = [store EXCEPT ![fetched[p].id] =
                    [target[p] EXCEPT !.etag = store[fetched[p].id].etag + 1]]
    /\ pc' = [pc EXCEPT ![p] = "run"]
    /\ UNCHANGED <<nextId, req, tries, fetched, target, val, result>>

\* cosmos_replace succeeds: the whole document is replaced and gets a new
\* etag; the handler returns.
cosmos_replace(p) ==
    /\ pc[p] = "write"
    /\ etag_matches(store, fetched[p])
    /\ store' = [store EXCEPT ![fetched[p].id] =
                    [target[p] EXCEPT !.etag = store[fetched[p].id].etag + 1]]
    /\ pc' = [pc EXCEPT ![p] = "done"]
    /\ result' = [result EXCEPT ![p] = "ok"]
    /\ UNCHANGED <<nextId, req, tries, fetched, target, val>>

\* The failure cosmos_replace raises when its access condition does not hold.
VersionConflict == "CosmosAccessConditionFailedError"

\* Faulty variant: the wrapper lets the failure of the access condition through.
cosmos_retry_passes(p) ==
    /\ pc[p] = "write"
    /\ ~etag_matches(store, fetched[p])
    /\ pc' = [pc EXCEPT ![p] = "done"]
    /\ result' = [result EXCEPT ![p] = VersionConflict]
    /\ UNCHANGED <<store, nextId, req, tries, fetched, target, val>>

\* Faulty variant: giving up, the wrapper stores the document of the last
\* attempt before it reports the error.
cosmos_retry_writes(p) ==
    /\ pc[p] = "write"
    /\ ~etag_matches(store, fetched[p])
    /\ tries' = [tries EXCEPT ![p] = tries[p] - 1]
    /\ IF tries[p] - 1 = 0
       THEN /\ pc' = [pc EXCEPT ![p] = "done"]
            /\ result' = [result EXCEPT ![p] = error_msg(req[p].api)]
            /\ store' = [store EXCEPT ![fetched[p].id] =
                            [target[p] EXCEPT !.etag = store[fetched[p].id].etag]]
       ELSE /\ pc' = [pc EXCEPT ![p] = "run"]
            /\ UNCHANGED <<result, store>>
    /\ fetched' = [fetched EXCEPT ![p] = NoDoc]
    /\ target' = [target EXCEPT ![p] = NoDoc]
    /\ val' = [val EXCEPT ![p] = NoVal]
    /\ UNCHANGED <<nextId, req>>

\* cosmos_replace fails its access condition: the handler's run ends with its
\* locals, the wrapper counts the attempt and runs the handler again, or gives
\* up with its error_msg.
cosmos_retry(p) ==
    /\ pc[p] = "write"
    /\ ~etag_matches(store, fetched[p])
    /\ tries' = [tries EXCEPT ![p] = tries[p] - 1]
    /\ IF tries[p] - 1 = 0
       THEN /\ pc' = [pc EXCEPT ![p] = "done"]
            /\ result' = [result EXCEPT ![p] = error_msg(req[p].api)]
       ELSE /\ pc' = [pc EXCEPT ![p] = "run"]
            /\ UNCHANGED result
    /\ fetched' = [fetched EXCEPT ![p] = NoDoc]
    /\ target' = [target EXCEPT ![p] = NoDoc]
    /\ val' = [val EXCEPT ![p] = NoVal]
    /\ UNCHANGED <<store, nextId, req>>

\* A handler that only reads: its run ends with the response.
Respond(p, r, out) ==
    /\ req' = [req EXCEPT ![p] = r]
    /\ pc' = [pc EXCEPT ![p] = "done"]
    /\ result' = [result EXCEPT ![p] = IF out.err # "" THEN out.err ELSE "ok"]
    /\ val' = [val EXCEPT ![p] = out.val]
    /\ UNCHANGED <<store, nextId, tries, fetched, target>>

get_space(p, R) ==
    \E r \in Pending(p, R, "get_space") :
        \E out \in {get_space_body(store, r)} : Respond(p, r, out)

get_spaces(p, R) ==
    \E r \in Pending(p, R, "get_spaces") :
        \E out \in {get_spaces_body(store, r)} : Respond(p, r, out)

\* One run of an admin handler body: it ends with cosmos_upsert in
\* new_admin_db, which takes a new uuid, or with cosmos_replace.
AdminAttempt(p, r, out) ==
    /\ pc[p] = "run" \/ out.err # "" \/ out.old # NoDoc \/ nextId < MaxIds
    /\ AttemptTo(p, r, out, IF out.old = NoDoc THEN "upsert" ELSE "write")
    /\ nextId' = IF out.err = "" /\ out.old = NoDoc THEN nextId + 1 ELSE nextId

create_admin(p, R) ==
    \E r \in Pending(p, R, "create_admin") :
        \E out \in {create_admin_body(store, r, nextId + 1)} : AdminAttempt(p, r, out)

update_admins(p, R) ==
    \E r \in Pending(p, R, "update_admins") :
        \E out \in {update_admins_body(store, r, nextId + 1)} : AdminAttempt(p, r, out)

add_exclusions(p, R) ==
    \E r \in Pending(p, R, "add_exclusions") :
        \E out \in {add_exclusions_body(store, r, nextId + 1)} : AdminAttempt(p, r, out)

delete_admin(p, R) ==
    \E r \in Pending(p, R, "delete_admin") :
        \E out \in {delete_admin_body(store, r)} :
            /\ Attempt(p, r, out)
            /\ UNCHANGED nextId

remove_exclusion(p, R) ==
    \E r \in Pending(p, R, "remove_exclusion") :
        \E out \in {remove_exclusion_body(store, r)} :
            /\ Attempt(p, r, out)
            /\ UNCHANGED nextId

\* ---------------------------------------------------------- specifications

\* A block as create_block stores it, with networks attached by
\* create_block_vnet in the order given.
Block(name, cidr, ids) ==
    [name |-> name, cidr |-> cidr,
     vnets |-> [i \in DOMAIN ids |-> [id |-> ids[i], active |-> TRUE]], resv |-> <<>>]

\* A Space as create_space stores it, holding the given blocks.
Space(blocks) == [id |-> 1, name |-> "s1", desc |-> "", blocks |-> blocks, etag |-> 0]

InitProcs ==
    /\ nextId = 0
    /\ pc = [p \in Procs |-> "idle"]
    /\ req = [p \in Procs |-> NoReq]
    /\ tries = [p \in Procs |-> 0]
    /\ fetched = [p \in Procs |-> NoDoc]
    /\ target = [p \in Procs |-> NoDoc]
    /\ val = [p \in Procs |-> NoVal]
    /\ result = [p \in Procs |-> ""]

\* Reservation requests against a Space of two disjoint blocks, "a" the first
\* half of the address space and "b" the second, with networks attached.
ReqSizes == {0, 2, 3}

ResvIds == 1..MaxIds

CreateResvReqs ==
    [api : {"create_block_reservation"}, space : {"s1"}, block : {"A"},
     size : ReqSizes, reverse_search : BOOLEAN, smallest_cidr : BOOLEAN,
     caller : Users]

MultiResvReqs ==
    [api : {"create_multi_block_reservation"}, space : {"s1"},
     blocks : {<<"a", "b">>, <<"b", "a">>, <<"a", "B">>},
     size : ReqSizes \ {0}, reverse_search : BOOLEAN, smallest_cidr : BOOLEAN,
     caller : {"bob"}]

DeleteResvReqs ==
    [api : {"delete_block_reservations"}, space : {"s1"}, block : {"a"},
     ids : {<<i>> : i \in ResvIds} \cup {<<i, j>> : i, j \in ResvIds},
     caller : {"alice", "root"}]

InitResv ==
    /\ \E va \in {<<>>, <<"v1">>, <<"v3", "v2">>}, vb \in {<<>>, <<"v2">>} :
          store = (1 :> Space(<<Block("a", Net(0, 1), va), Block("b", Net(1, 1), vb)>>))
    /\ InitProcs

NextResv ==
    \E p \in {"p1"} :
        \/ create_block_reservation(p, Open(CreateResvReqs, MaxEtag))
        \/ create_multi_block_reservation(p, Open(MultiResvReqs, MaxEtag))
        \/ delete_block_reservations(p, Open(DeleteResvReqs, MaxEtag))
        \/ cosmos_replace(p)
        \/ respond(p)

SpecResv == InitResv /\ [][NextResv]_vars

\* Two callers creating reservations at the same time, in the same Spaces.
RaceCreateReqs ==
    [api : {"create_block_reservation"}, space : {"s1"}, block : {"A"},
     size : {2, 3}, reverse_search : BOOLEAN, smallest_cidr : BOOLEAN,
     caller : {"alice"}]

RaceMultiReqs ==
    [api : {"create_multi_block_reservation"}, space : {"s1"},
     blocks : {<<"b", "a">>},
     size : {2}, reverse_search : BOOLEAN, smallest_cidr : BOOLEAN,
     caller : {"bob"}]

NextRace ==
    \E p \in Procs :
        \/ create_block_reservation(p, Open(RaceCreateReqs, MaxRaceWrites))
        \/ create_multi_block_reservation(p, Open(RaceMultiReqs, MaxRaceWrites))
        \/ cosmos_replace(p)
        \/ cosmos_retry(p)
        \/ respond(p)

SpecRace == InitResv /\ [][NextRace]_vars

\* Two callers, one create_block_reservation call each.
PairReqs ==
    [api : {"create_block_reservation"}, space : {"s1"}, block : {"a"},
     size : {2, 3}, reverse_search : BOOLEAN, smallest_cidr : BOOLEAN,
     caller : Users]

NextPair ==
    \E p \in Procs :
        \/ create_block_reservation(p, PairReqs)
        \/ cosmos_replace(p)
        \/ cosmos_retry(p)

SpecPair == InitResv /\ [][NextPair]_vars

\* Administrators creating and deleting blocks at the same time, in a Space
\* that starts empty.
BlockCidrs == {Net(0, 1), Net(1, 1), Net(0, 2)}

CreateBlockReqs ==
    [api : {"create_block"}, space : {"s1"}, name : {"a", "A", "b"},
     cidr : BlockCidrs, caller : {"root", "alice"}]

DeleteBlockReqs ==
    [api : {"delete_block"}, space : {"s1"}, block : {"a", "b"},
     force : BOOLEAN, caller : {"root"}]

InitBlocks ==
    /\ store = (1 :> Space(<<>>))
    /\ InitProcs

NextBlocks ==
    \E p \in Procs :
        \/ create_block(p, Open(CreateBlockReqs, MaxEtag))
        \/ delete_block(p, Open(DeleteBlockReqs, MaxEtag))
        \/ cosmos_replace(p)
        \/ cosmos_retry(p)
        \/ respond(p)

SpecBlocks == InitBlocks /\ [][NextBlocks]_vars

\* One administrator attaching, replacing and detaching networks while
\* reservations are created and deleted, in a Space of two disjoint blocks.
VnetIds == {"v1", "v2", "v3", "vx"}

AttachReqs ==
    [api : {"create_block_vnet"}, space : {"s1"}, block : {"a", "b"},
     vnet : VnetIds, caller : {"root"}]

ReplaceReqs ==
    [api : {"update_block_vnets"}, space : {"s1"}, block : {"a"},
     vnets : {<<>>} \cup {<<v>> : v \in VnetIds}
             \cup {<<v, w>> : v, w \in VnetIds \ {"vx"}},
     caller : {"root"}]

DetachReqs ==
    [api : {"delete_block_vnets"}, space : {"s1"}, block : {"a"},
     vnets : {<<v>> : v \in VnetIds} \cup {<<"v1", "v2">>, <<"v3", "v3">>},
     caller : {"root"}]

NetsCreateReqs ==
    [api : {"create_block_reservation"}, space : {"s1"}, block : {"a"},
     size : {2, 3}, reverse_search : BOOLEAN, smallest_cidr : {FALSE},
     caller : {"alice"}]

NetsDeleteReqs ==
    [api : {"delete_block_reservations"}, space : {"s1"}, block : {"a"},
     ids : {<<i>> : i \in ResvIds}, caller : {"alice"}]

InitNets ==
    /\ store = (1 :> Space(<<Block("a", Net(0, 1), <<>>), Block("b", Net(1, 1), <<>>)>>))
    /\ InitProcs

NextNets ==
    \E p \in {"p1"} :
        \/ create_block_vnet(p, Open(AttachReqs, MaxEtag))
        \/ update_block_vnets(p, Open(ReplaceReqs, MaxEtag))
        \/ delete_block_vnets(p, Open(DetachReqs, MaxEtag))
        \/ create_block_reservation(p, Open(NetsCreateReqs, MaxEtag))
        \/ delete_block_reservations(p, Open(NetsDeleteReqs, MaxEtag))
        \/ cosmos_replace(p)
        \/ respond(p)

SpecNets == InitNets /\ [][NextNets]_vars

\* Two callers whose writes keep getting in each other's way: an administrator
\* creating and deleting block "b" and a user reserving in block "a".
RetryBlockReqs ==
    [api : {"create_block"}, space : {"s1"}, name : {"b"}, cidr : {Net(1, 1)},
     caller : {"root"}]
    \cup [api : {"delete_block"}, space : {"s1"}, block : {"b"}, force : {FALSE},
          caller : {"root"}]

RetryResvReqs ==
    [api : {"create_block_reservation"}, space : {"s1"}, block : {"a"},
     size : {2}, reverse_search : {FALSE}, smallest_cidr : BOOLEAN, caller : {"alice"}]

InitRetry ==
    /\ store = (1 :> Space(<<Block("a", Net(0, 1), <<>>)>>))
    /\ InitProcs

NextRetry ==
    \E p \in Procs :
        \/ create_block(p, Open(RetryBlockReqs, MaxWrites))
        \/ delete_block(p, Open(RetryBlockReqs, MaxWrites))
        \/ create_block_reservation(p, Open(RetryResvReqs, MaxWrites))
        \/ cosmos_replace(p)
        \/ cosmos_retry(p)
        \/ respond(p)

SpecRetry == InitRetry /\ [][NextRetry]_vars

\* Administrators creating, renaming and deleting Spaces at the same time, in
\* a tenant that starts without Spaces.
Replace(path, value) == [op |-> "replace", path |-> path, value |-> value]

SpacePatches ==
    {<<Replace("/name", v)>> : v \in {"S1", "s2", "s 1"}}
    \cup {<<Replace("/desc", "s 1")>>, <<Replace("/desc", ""), Replace("/name", "s2")>>,
          <<[op |-> "remove", path |-> "/name", value |-> ""], Replace("/desc", "s1")>>}

CreateSpaceReqs ==
    [api : {"create_space"}, name : {"s1", "S1", "s2"}, desc : {""},
     caller : {"root", "alice"}]

UpdateSpaceReqs ==
    [api : {"update_space"}, space : {"s1", "s2"}, updates : SpacePatches,
     caller : {"root"}]

DeleteSpaceReqs ==
    [api : {"delete_space"}, space : {"s1", "S1"}, force : BOOLEAN, caller : {"root"}]

InitSpaces ==
    /\ store = [i \in {} |-> NoDoc]
    /\ InitProcs

NextSpaces ==
    \E p \in Procs :
        \/ create_space(p, CreateSpaceReqs)
        \/ update_space(p, Open(UpdateSpaceReqs, MaxRenames))
        \/ delete_space(p, DeleteSpaceReqs)
        \/ cosmos_upsert(p)
        \/ cosmos_replace(p)
        \/ cosmos_retry(p)
        \/ cosmos_delete(p)
        \/ respond(p)

SpecSpaces == InitSpaces /\ [][NextSpaces]_vars

\* Two runs of the allocation, side by side: two Spaces, each with one block
\* of the same range whose consumed ranges were recorded in any order and as
\* attachments or reservations, and one caller reserving in each. No write is
\* made, so each run's inputs stay in the store next to its outcome.
AllocRanges == {Net(0, 3), Net(1, 3), Net(1, 2), Net(0, 2)}

AllocResvLists ==
    {<<>>} \cup {<<c>> : c \in AllocRanges}
    \cup {<<c, d>> : c, d \in {x \in AllocRanges : TRUE}}

AllocBlocks(doc) ==
    {[Block("a", Net(0, 1), ids) EXCEPT
        !.resv = [i \in DOMAIN cs |->
                    [id |-> 10 * doc + i, cidr |-> cs[i],
                     userId |-> IF doc = 1 THEN "alice" ELSE "bob", status |-> "wait"]]] :
        ids \in {<<>>, <<"v1">>, <<"v3">>},
        cs \in {l \in AllocResvLists :
                  \A i, j \in DOMAIN l : i # j => Hosts(l[i]) \cap Hosts(l[j]) = {}}}

AllocReqs(p) ==
    [api : {"create_block_reservation"}, space : {IF p = "p1" THEN "s1" ELSE "s2"},
     block : {"a"}, size : {2, 3}, reverse_search : BOOLEAN, smallest_cidr : BOOLEAN,
     caller : {IF p = "p1" THEN "alice" ELSE "bob"}]

InitAlloc ==
    /\ \E b1 \in AllocBlocks(1), b2 \in AllocBlocks(2) :
          store = (1 :> Space(<<b1>>))
                  @@ (2 :> [Space(<<b2>>) EXCEPT !.id = 2, !.name = "s2"])
    /\ InitProcs

NextAlloc ==
    \E p \in Procs :
        \/ create_block_reservation(p, AllocReqs(p))
        \/ respond(p)

SpecAlloc == InitAlloc /\ [][NextAlloc]_vars

\* Reservations in one block that spans the whole address space, with some
\* of it consumed beforehand by an attached network and by reservations.
TightRanges == {Net(0, 3), Net(0, 2), Net(2, 2), Net(3, 2), Net(1, 1)}

TightBlocks ==
    {[Block("a", Net(0, 0), ids) EXCEPT
        !.resv = [i \in DOMAIN cs |->
                    [id |-> 10 + i, cidr |-> cs[i], userId |-> "alice", status |-> "wait"]]] :
        ids \in {<<>>, <<"v3">>},
        cs \in {l \in {<<>>} \cup {<<c>> : c \in TightRanges}
                       \cup {<<c, d>> : c, d \in {x \in TightRanges : TRUE}} :
                  \A i, j \in DOMAIN l : i # j => Hosts(l[i]) \cap Hosts(l[j]) = {}}}

TightReqs ==
    [api : {"create_block_reservation"}, space : {"s1"}, block : {"a"},
     size : {1, 2, 3}, reverse_search : BOOLEAN, smallest_cidr : BOOLEAN,
     caller : {"alice"}]

TightMultiReqs ==
    [api : {"create_multi_block_reservation"}, space : {"s1"}, blocks : {<<"a">>},
     size : {2, 3}, reverse_search : BOOLEAN, smallest_cidr : BOOLEAN,
     caller : {"bob"}]

InitTight ==
    /\ \E b \in TightBlocks :
          /\ \A x \in Range(b.resv) :
                Hosts(x.cidr) \cap IPSet(block_all_cidrs([b EXCEPT !.resv = <<>>])) = {}
          /\ store = (1 :> Space(<<b>>))
    /\ InitProcs

NextTight ==
    \E p \in {"p1"} :
        \/ create_block_reservation(p, Open(TightReqs, MaxEtag))
        \/ create_multi_block_reservation(p, Open(TightMultiReqs, MaxEtag))
        \/ cosmos_replace(p)
        \/ respond(p)

SpecTight == InitTight /\ [][NextTight]_vars

\* Two callers sending requests of which many are refused: unknown names and
\* ids, duplicates, overlapping networks, missing rights, a block without
\* room, and writes that keep getting in each other's way.
ErrVnetReqs ==
    [api : {"update_block_vnets"}, space : {"s1", "sx"}, block : {"a"},
     vnets : {<<>>, <<"v1">>, <<"v3", "v3">>, <<"v3", "v2">>, <<"vx">>},
     caller : {"root", "alice"}]

ErrDeleteReqs ==
    [api : {"delete_block_reservations"}, space : {"s1"}, block : {"a", "z"},
     ids : {<<1>>, <<1, 1>>}, caller : {"alice", "bob"}]

ErrCreateReqs ==
    [api : {"create_block_reservation"}, space : {"s1"}, block : {"a"},
     size : {1}, reverse_search : {FALSE}, smallest_cidr : {FALSE}, caller : {"alice"}]

NextErrors ==
    \E p \in Procs :
        \/ update_block_vnets(p, Open(ErrVnetReqs, MaxWrites))
        \/ delete_block_reservations(p, Open(ErrDeleteReqs, MaxWrites))
        \/ create_block_reservation(p, Open(ErrCreateReqs, MaxWrites))
        \/ cosmos_replace(p)
        \/ cosmos_retry(p)
        \/ respond(p)

SpecErrors == InitRetry /\ [][NextErrors]_vars

\* One administrator deleting a Space while another creates and deletes
\* blocks in it.
DropSpaceReqs ==
    [api : {"delete_space"}, space : {"s1"}, force : BOOLEAN, caller : {"root", "alice"}]

DropBlockReqs ==
    [api : {"create_block"}, space : {"s1"}, name : {"a", "b"},
     cidr : {Net(0, 1), Net(1, 1)}, caller : {"root"}]
    \cup [api : {"delete_block"}, space : {"s1"}, block : {"a", "b"}, force : {FALSE},
          caller : {"root"}]

NextDrop ==
    \E p \in Procs :
        \/ delete_space(p, DropSpaceReqs)
        \/ create_block(p, Open(DropBlockReqs, MaxEtag))
        \/ delete_block(p, Open(DropBlockReqs, MaxEtag))
        \/ cosmos_replace(p)
        \/ cosmos_retry(p)
        \/ cosmos_delete(p)
        \/ respond(p)

SpecDrop == InitBlocks /\ [][NextDrop]_vars

\* An administrator creating and deleting blocks, forced or not, while a user
\* reserves in them.
DeleteCreateReqs ==
    [api : {"create_block"}, space : {"s1"}, name : {"a", "B"},
     cidr : {Net(0, 1), Net(1, 1)}, caller : {"root"}]

DeleteReqs ==
    [api : {"delete_block"}, space : {"s1"}, block : {"a", "b", "B"},
     force : BOOLEAN, caller : {"root"}]

DeleteResvInReqs ==
    [api : {"create_block_reservation"}, space : {"s1"}, block : {"a", "b"},
     size : {2}, reverse_search : {FALSE}, smallest_cidr : {FALSE}, caller : {"alice"}]

NextDelete ==
    \E p \in Procs :
        \/ create_block(p, Open(DeleteCreateReqs, MaxEtag))
        \/ delete_block(p, Open(DeleteReqs, MaxEtag))
        \/ create_block_reservation(p, Open(DeleteResvInReqs, MaxEtag))
        \/ cosmos_replace(p)
        \/ cosmos_retry(p)
        \/ respond(p)

SpecDelete == InitBlocks /\ [][NextDelete]_vars

\* The life of reservations: users reserving and deleting reservations while
\* an administrator creates and deletes blocks and deletes the Space.
LifeBlockReqs ==
    [api : {"create_block"}, space : {"s1"}, name : {"a"}, cidr : {Net(0, 1)},
     caller : {"root"}]
    \cup [api : {"delete_block"}, space : {"s1"}, block : {"a"}, force : BOOLEAN,
          caller : {"root"}]

LifeSpaceReqs ==
    [api : {"delete_space"}, space : {"s1"}, force : BOOLEAN, caller : {"root"}]

LifeResvReqs ==
    [api : {"create_block_reservation"}, space : {"s1"}, block : {"a"},
     size : {2}, reverse_search : BOOLEAN, smallest_cidr : {FALSE}, caller : {"alice", "bob"}]
    \cup [api : {"delete_block_reservations"}, space : {"s1"}, block : {"a"},
          ids : {<<i>> : i \in ResvIds}, caller : {"alice", "root"}]

NextLife ==
    \E p \in Procs :
        \/ create_block(p, Open(LifeBlockReqs, MaxEtag))
        \/ delete_block(p, Open(LifeBlockReqs, MaxEtag))
        \/ delete_space(p, LifeSpaceReqs)
        \/ create_block_reservation(p, Open(LifeResvReqs, MaxEtag))
        \/ delete_block_reservations(p, Open(LifeResvReqs, MaxEtag))
        \/ cosmos_replace(p)
        \/ cosmos_retry(p)
        \/ cosmos_delete(p)
        \/ respond(p)

SpecLife == InitBlocks /\ [][NextLife]_vars

\* Users and an administrator calling every mutating handler, in a Space whose
\* block holds a reservation of each user.
PermSpaceReqs ==
    [api : {"create_space"}, name : {"s1"}, desc : {""}, caller : {"alice", "root"}]
    \cup [api : {"update_space"}, space : {"s1"}, updates : {<<Replace("/desc", "s1")>>},
          caller : {"alice", "root"}]
    \cup [api : {"delete_space"}, space : {"s1"}, force : BOOLEAN, caller : {"alice", "root"}]

PermBlockReqs ==
    [api : {"create_block"}, space : {"s1"}, name : {"b"}, cidr : {Net(1, 1)},
     caller : {"bob", "root"}]
    \cup [api : {"delete_block"}, space : {"s1"}, block : {"b"}, force : {TRUE},
          caller : {"bob", "root"}]

PermVnetReqs ==
    [api : {"create_block_vnet"}, space : {"s1"}, block : {"a"}, vnet : {"v3"},
     caller : {"alice", "root"}]
    \cup [api : {"update_block_vnets"}, space : {"s1"}, block : {"a"},
          vnets : {<<>>, <<"v3">>}, caller : {"alice", "root"}]
    \cup [api : {"delete_block_vnets"}, space : {"s1"}, block : {"a"},
          vnets : {<<"v3">>}, caller : {"alice", "root"}]

PermResvReqs ==
    [api : {"create_block_reservation"}, space : {"s1"}, block : {"a"},
     size : {3}, reverse_search : {FALSE}, smallest_cidr : {FALSE}, caller : Callers]
    \cup [api : {"delete_block_reservations"}, space : {"s1"}, block : {"a"},
          ids : {<<11>>, <<12>>, <<11, 12>>}, caller : Callers]

InitPerm ==
    /\ store = (1 :> Space(<<[Block("a", Net(0, 1), <<>>) EXCEPT
                                !.resv = <<new_cidr(11, Net(0, 3), "alice"),
                                           new_cidr(12, Net(1, 3), "bob")>>]>>))
    /\ InitProcs

NextPerm ==
    \E p \in Procs :
        \/ create_space(p, Open(PermSpaceReqs, MaxRaceWrites))
        \/ update_space(p, Open(PermSpaceReqs, MaxRaceWrites))
        \/ delete_space(p, Open(PermSpaceReqs, MaxRaceWrites))
        \/ create_block(p, Open(PermBlockReqs, MaxRaceWrites))
        \/ delete_block(p, Open(PermBlockReqs, MaxRaceWrites))
        \/ create_block_vnet(p, Open(PermVnetReqs, MaxRaceWrites))
        \/ update_block_vnets(p, Open(PermVnetReqs, MaxRaceWrites))
        \/ delete_block_vnets(p, Open(PermVnetReqs, MaxRaceWrites))
        \/ create_block_reservation(p, Open(PermResvReqs, MaxRaceWrites))
        \/ delete_block_reservations(p, Open(PermResvReqs, MaxRaceWrites))
        \/ cosmos_replace(p)
        \/ cosmos_retry(p)
        \/ cosmos_delete(p)
        \/ respond(p)

SpecPerm == InitPerm /\ [][NextPerm]_vars

\* An administrator attaching networks to the two blocks of a Space while the
\* utilization of the Space is read.
UtilAttachReqs ==
    [api : {"create_block_vnet"}, space : {"s1"}, block : {"a", "b"},
     vnet : {"v1", "V1", "v2", "v3"}, caller : {"root"}]

UtilReplaceReqs ==
    [api : {"update_block_vnets"}, space : {"s1"}, block : {"a"},
     vnets : {<<>>, <<"v2", "v3">>, <<"v3", "v1">>}, caller : {"root"}]

GetSpaceReqs ==
    [api : {"get_space"}, space : {"s1", "sx"}, expand : BOOLEAN, utilization : BOOLEAN,
     caller : {"root", "alice"}]

GetSpacesReqs ==
    [api : {"get_spaces"}, expand : BOOLEAN, utilization : BOOLEAN,
     caller : {"root", "alice"}]

NextUtil ==
    \E p \in {"p1"} :
        \/ create_block_vnet(p, Open(UtilAttachReqs, MaxEtag))
        \/ update_block_vnets(p, Open(UtilReplaceReqs, MaxEtag))
        \/ cosmos_replace(p)
        \/ get_space(p, GetSpaceReqs)
        \/ get_spaces(p, GetSpacesReqs)
        \/ respond(p)

SpecUtil == InitNets /\ [][NextUtil]_vars

\* Administrators adding admins and exclusions at the same time, in a tenant
\* that starts without an admin record.
AdminEntries == {[id |-> "u1", name |-> "ann"], [id |-> "u2", name |-> "ben"]}

CreateAdminReqs ==
    [api : {"create_admin"}, admin : AdminEntries, caller : {"root", "alice"}]

UpdateAdminsReqs ==
    [api : {"update_admins"},
     admin_list : {<<>>} \cup {<<a, b>> : a \in AdminEntries, b \in {x \in AdminEntries : x.id = "u1"}},
     caller : {"root"}]

AddExclusionsReqs ==
    [api : {"add_exclusions"},
     exclusions : {<<"sub1">>, <<"sub2", "sub1">>, <<"subx">>},
     caller : {"root"}]

DeleteAdminReqs ==
    [api : {"delete_admin"}, objectId : {"u1", "u3"}, caller : {"root", "bob"}]

RemoveExclusionReqs ==
    [api : {"remove_exclusion"}, subscriptionId : {"sub1", "subx"}, caller : {"root"}]

InitAdmin ==
    /\ store = [i \in {} |-> NoDoc]
    /\ InitProcs

NextAdmin ==
    \E p \in Procs :
        \/ create_admin(p, Open(CreateAdminReqs, MaxRaceWrites))
        \/ update_admins(p, Open(UpdateAdminsReqs, MaxRaceWrites))
        \/ add_exclusions(p, Open(AddExclusionsReqs, MaxRaceWrites))
        \/ delete_admin(p, Open(DeleteAdminReqs, MaxRaceWrites))
        \/ remove_exclusion(p, Open(RemoveExclusionReqs, MaxRaceWrites))
        \/ cosmos_upsert(p)
        \/ cosmos_replace(p)
        \/ cosmos_retry(p)
        \/ respond(p)

SpecAdmin == InitAdmin /\ [][NextAdmin]_vars

\* ---------------------------------------------------------- step predicates

\* Slot p ran its handler body in this step.
Ran(p) == pc[p] \in {"idle", "run"} /\ pc'[p] \in {"write", "done"}

\* Slot p's conditioned write was accepted in this step.
Committed(p) == pc[p] = "write" /\ pc'[p] = "done" /\ result'[p] = "ok"

\* The taxonomy of the errors a caller sees.
PermissionError ==
    {"This API is admin restricted.", "API restricted to admins.",
     "Users can only delete their own reservations."}

AllocationExhausted ==
    {"Network of requested size unavailable in target block.",
     "Network of requested size unavailable in target block(s)."}

RetryExhausted ==
    {error_msg(a) : a \in {"create_block", "delete_block", "create_block_vnet",
                           "update_block_vnets", "delete_block_vnets",
                           "create_block_reservation", "create_multi_block_reservation",
                           "delete_block_reservations"}}

\* Exceptions that are no HTTPException: the caller sees an internal error.
Unhandled == {"ValueError", "TypeError"}

\* The addresses a block's reservations and the in-block prefixes of its
\* attached networks cover, read off the document and the directory.
ResvHosts(block) == UNION {Hosts(block.resv[i].cidr) : i \in DOMAIN block.resv}

AttachedPrefixes(block) ==
    {x \in UNION {Range(v.prefixes) :
                    v \in {w \in Range(vnet_list) :
                             \E i \in DOMAIN block.vnets :
                                 Lower(block.vnets[i].id) = Lower(w.id)}} :
        InNet(x, block.cidr)}

AttachedHosts(block) == UNION {Hosts(x) : x \in AttachedPrefixes(block)}

\* The block a request names, in the Space as stored; 0 when there is none.
StoredBlockIx(name) == find_block(store[1].blocks, name)

\* Some maximal free network of the block is large enough for the size.
HasFit(block, size) ==
    \E c \in MaximalCidrs(Hosts(block.cidr) \ (ResvHosts(block) \cup AttachedHosts(block))) :
        c.len <= size

\* ------------------------------------------------------------------ claims

\* C1: every successful reservation creation commits a reservation whose CIDR
\* has exactly the requested prefix length, lies inside the chosen block's
\* range and is disjoint from every reservation CIDR and every clipped
\* attachment prefix the block held in the version the write replaced.
C1_CreatedDisjoint ==
    [][\A p \in Procs :
          (Committed(p) /\ req[p].api \in {"create_block_reservation",
                                          "create_multi_block_reservation"})
          => \E bi \in DOMAIN store[1].blocks :
                LET old == store[1].blocks[bi]
                    new == store'[1].blocks[bi]
                    r == new.resv[Len(new.resv)]
                IN  /\ Lower(old.name) = Lower(val[p].block)
                    /\ new.resv = Append(old.resv, r)
                    /\ r.cidr = val[p].cidr
                    /\ r.cidr \in AllCidrs
                    /\ r.cidr.len = req[p].size
                    /\ Hosts(r.cidr) \subseteq Hosts(old.cidr)
                    /\ Hosts(r.cidr) \cap (ResvHosts(old) \cup AttachedHosts(old)) = {}]_vars

\* A creation that lost a race and ran again has added a reservation to a
\* block that already held an attached network and another reservation.
C1_Witness ==
    \E p \in Procs :
        /\ pc[p] = "done" /\ result[p] = "ok"
        /\ req[p].api = "create_block_reservation"
        /\ tries[p] < max_retry
        /\ \E b \in Range(store[1].blocks) :
              /\ Len(b.resv) >= 2
              /\ b.resv[Len(b.resv)].id = val[p].id
              /\ AttachedHosts(b) # {}

\* C2 as stated: in every committed state no two ranges among a block's
\* reservation CIDRs and its attachments' clipped prefixes overlap.
BlockRanges(block) ==
    [i \in DOMAIN block.resv |-> block.resv[i].cidr] \o block_vnet_cidrs(block)

PairwiseDisjoint(cidrs) ==
    \A i, j \in DOMAIN cidrs : i # j => Hosts(cidrs[i]) \cap Hosts(cidrs[j]) = {}

FirstPrefixes(block) ==
    Concat([i \in DOMAIN block.vnets |->
              IF find_vnet(block.vnets[i].id) = <<>> THEN <<>>
              ELSE target_cidr(find_vnet(block.vnets[i].id)[1], block.cidr)])

C3_BlocksDisjoint ==
    PairwiseDisjoint([i \in DOMAIN store[1].blocks |-> store[1].blocks[i].cidr])

\* Two blocks are stored, and a create_block that lost a race and ran again
\* was refused for overlapping one of them.
C3_Witness ==
    /\ Len(store[1].blocks) = 2
    /\ \E p \in Procs :
          /\ pc[p] = "done"
          /\ req[p].api = "create_block"
          /\ tries[p] < max_retry
          /\ result[p] = "New block cannot overlap existing blocks."

\* C4: two create_block_reservation calls run at the same time against the
\* same block with the same size and smallest_cidr false. When the block has
\* room for both, both end successfully after at most one access-condition
\* failure: the one that commits first gets the first available slot (the
\* last one under reverse_search), the other the first of the slots left, and
\* the two CIDRs do not overlap.
FreeSlots(block, size) ==
    {c \in AllCidrs :
        /\ c.len = size
        /\ Hosts(c) \subseteq Hosts(block.cidr) \ (ResvHosts(block) \cup AttachedHosts(block))}

Slot(slots, reverse_search) ==
    IF reverse_search THEN CHOOSE c \in slots : \A d \in slots : d.base <= c.base
    ELSE CHOOSE c \in slots : \A d \in slots : c.base <= d.base

C4_BothSucceed ==
    \A p, q \in Procs :
        (/\ p # q
         /\ pc[p] = "done" /\ pc[q] = "done"
         /\ req[p].size = req[q].size
         /\ ~req[p].smallest_cidr /\ ~req[q].smallest_cidr)
        => LET b == store[1].blocks[StoredBlockIx("a")]
               slots == FreeSlots([b EXCEPT !.resv = <<>>], req[p].size)
           IN  Cardinality(slots) >= 2
               => /\ result[p] = "ok" /\ result[q] = "ok"
                  /\ tries[p] >= max_retry - 1 /\ tries[q] >= max_retry - 1
                  /\ Len(b.resv) = 2
                  /\ {b.resv[1].id, b.resv[2].id} = {val[p].id, val[q].id}
                  /\ val[p].id = b.resv[1].id
                        => /\ val[p].cidr = Slot(slots, req[p].reverse_search)
                           /\ b.resv[1].cidr = val[p].cidr
                           /\ val[q].cidr = Slot(slots \ {val[p].cidr}, req[q].reverse_search)
                           /\ b.resv[2].cidr = val[q].cidr
                  /\ Hosts(val[p].cidr) \cap Hosts(val[q].cidr) = {}

\* Both calls read the same version; one of them failed its access condition
\* once, ran again and succeeded too.
C4_Witness ==
    \E p, q \in Procs :
        /\ p # q
        /\ pc[p] = "done" /\ pc[q] = "done"
        /\ result[p] = "ok" /\ result[q] = "ok"
        /\ req[p].size = req[q].size
        /\ ~req[p].smallest_cidr /\ ~req[q].smallest_cidr
        /\ tries[p] = max_retry /\ tries[q] = max_retry - 1
        /\ val[p].id < val[q].id
        /\ AttachedHosts(store[1].blocks[StoredBlockIx("a")]) # {}

\* C5: no lost update. Every change of the stored document is the accepted
\* write of one attempt that read exactly the version it replaces, and what it
\* stores is what that handler computes from that version; an attempt that
\* read the same version and is at its write stays there and its write is then
\* refused; and every attempt, a re-run after a refusal included, computes on
\* the version stored when it runs.
HandlerOut(st, r, uuid) ==
    CASE r.api = "create_block" -> create_block_body(st, r)
      [] r.api = "delete_block" -> delete_block_body(st, r)
      [] r.api = "create_block_reservation" -> create_block_reservation_body(st, r, uuid)

C5_NoLostUpdate ==
    [][/\ store' # store
          => \E p \in Procs :
                /\ Committed(p)
                /\ fetched[p] = store[1]
                /\ store'[1] = [target[p] EXCEPT !.etag = store[1].etag + 1]
                /\ HandlerOut(store, req[p], val[p].id) =
                      Write(store[1], target[p], val[p])
                /\ \A q \in Procs \ {p} :
                      (pc[q] = "write" /\ fetched[q] = fetched[p])
                      => /\ pc'[q] = "write"
                         /\ fetched'[q] = fetched[q]
                         /\ ~etag_matches(store', fetched'[q])
       /\ \A p \in Procs :
             (Ran(p) /\ pc'[p] = "write")
             => /\ fetched'[p] = store[1]
                /\ HandlerOut(store, req'[p], val'[p].id) =
                      Write(store[1], target'[p], val'[p])]_vars

\* Two writers read the same version; the one refused ran again on the
\* other's document and its write was accepted: the block and the reservation
\* are both stored.
C5_Witness ==
    /\ Len(store[1].blocks) = 2
    /\ Len(store[1].blocks[1].resv) = 1
    /\ \E p, q \in Procs :
          /\ pc[p] = "done" /\ result[p] = "ok" /\ tries[p] = max_retry
          /\ pc[q] = "done" /\ result[q] = "ok" /\ tries[q] = max_retry - 1
          /\ req[p].api # req[q].api

\* C6 as stated: every mutating operation ends after at most 5 attempts, in
\* success, in a validation, permission or allocation-exhausted error, or,
\* when each of its 5 attempts was refused at the write, in the
\* retry-exhausted error.
C6_EndsWithinFiveAttempts ==
    \A p \in Procs :
        /\ tries[p] \in 0..5
        /\ pc[p] \in {"run", "write"} => tries[p] >= 1
        /\ pc[p] = "done"
              => /\ result[p] \notin Unhandled
                 /\ result[p] \in RetryExhausted <=> tries[p] = 0

\* C6, the part that holds: no operation makes more than 5 attempts, and the
\* retry-exhausted error is returned exactly when the fifth attempt's write
\* was refused.
C6_AttemptBudget ==
    \A p \in Procs :
        /\ tries[p] \in 0..5
        /\ pc[p] \in {"run", "write"} => tries[p] >= 1
        /\ pc[p] = "done" => (result[p] \in RetryExhausted <=> tries[p] = 0)

\* C7: a refused write is never what the caller sees. Each refusal either
\* sends the operation, with one attempt fewer left, into another run of the
\* same request, or, when it was the last attempt, ends it with the
\* retry-exhausted error of its handler.
C7_ConflictNeverSurfaces ==
    [][\A p \in Procs :
          (pc[p] = "write" /\ ~etag_matches(store, fetched[p]) /\ pc'[p] # "write")
          => /\ result'[p] # VersionConflict
             /\ req'[p] = req[p]
             /\ tries'[p] = tries[p] - 1
             /\ store' = store
             /\ IF tries[p] > 1
                THEN pc'[p] = "run" /\ result'[p] = ""
                ELSE /\ pc'[p] = "done"
                     /\ result'[p] = error_msg(req[p].api)
                     /\ result'[p] \in RetryExhausted]_vars

\* An operation whose every attempt was refused ended with its handler's
\* retry-exhausted error.
C7_Witness ==
    \E p \in Procs :
        /\ pc[p] = "done"
        /\ tries[p] = 0
        /\ result[p] = error_msg(req[p].api)

\* C8: delete_block_reservations is all-or-nothing on ownership. When a
\* non-admin caller's list names a reservation of the block that another user
\* owns, the call ends in an error without reaching the write, the stored
\* document is untouched, and for a list that is otherwise valid (no duplicate,
\* every id a reservation of the block) the error is the permission error.
ForeignInList(r) ==
    /\ r.caller \notin Admins
    /\ StoredBlockIx(r.block) # 0
    /\ \E x \in Range(store[1].blocks[StoredBlockIx(r.block)].resv) :
          x.id \in Range(r.ids) /\ x.userId # r.caller

ValidIdList(r) ==
    /\ Len(r.ids) = Cardinality(Range(r.ids))
    /\ \A i \in DOMAIN r.ids :
          \E x \in Range(store[1].blocks[StoredBlockIx(r.block)].resv) : x.id = r.ids[i]

C8_AllOrNothing ==
    [][\A p \in Procs :
          (Ran(p) /\ req'[p].api = "delete_block_reservations" /\ ForeignInList(req'[p]))
          => /\ pc'[p] = "done"
             /\ result'[p] # "ok"
             /\ ValidIdList(req'[p]) =>
                   result'[p] = "Users can only delete their own reservations."
             /\ store' = store]_vars

\* A caller's list of one reservation of their own and one of another user's
\* was refused, and both reservations are still stored.
C8_Witness ==
    \E p \in Procs :
        /\ pc[p] = "done"
        /\ req[p].api = "delete_block_reservations"
        /\ result[p] = "Users can only delete their own reservations."
        /\ \E x, y \in Range(store[1].blocks[StoredBlockIx(req[p].block)].resv) :
              /\ req[p].ids = <<x.id, y.id>>
              /\ x.userId = req[p].caller
              /\ y.userId # req[p].caller

\* C9: for every combination of reverse_search and smallest_cidr, when no
\* maximal free network of the target block has a mask length <= the requested
\* size, create_block_reservation fails with the allocation-exhausted error
\* and the stored document is unchanged.
C9_ExhaustedWhenNoFit ==
    [][\A p \in Procs :
          (/\ Ran(p)
           /\ req'[p].api = "create_block_reservation"
           /\ StoredBlockIx(req'[p].block) # 0
           /\ ~HasFit(store[1].blocks[StoredBlockIx(req'[p].block)], req'[p].size))
          => /\ pc'[p] = "done"
             /\ result'[p] \in AllocationExhausted
             /\ store' = store]_vars

\* C10: create_multi_block_reservation is first-fit over the requested list
\* for every flag combination: a block without a fitting free network is
\* skipped, the reservation goes to the first listed block that has one, and
\* the call fails with the allocation-exhausted error only when none has.
FittingPositions(r) ==
    {i \in DOMAIN r.blocks :
        HasFit(store[1].blocks[StoredBlockIx(r.blocks[i])], r.size)}

C10_FirstFit ==
    [][\A p \in Procs :
          (/\ Ran(p)
           /\ req'[p].api = "create_multi_block_reservation"
           /\ \A i \in DOMAIN req'[p].blocks :
                 \E b \in Range(store[1].blocks) : b.name = req'[p].blocks[i])
          => LET r == req'[p]
                 fits == FittingPositions(r)
                 first == CHOOSE i \in fits : \A j \in fits : i <= j
                 bi == StoredBlockIx(r.blocks[first])
             IN  IF fits = {}
                 THEN pc'[p] = "done" /\ result'[p] \in AllocationExhausted
                 ELSE /\ pc'[p] = "write"
                      /\ val'[p].block = r.blocks[first]
                      /\ Len(target'[p].blocks[bi].resv) = Len(store[1].blocks[bi].resv) + 1
                      /\ \A k \in DOMAIN store[1].blocks :
                            k # bi => target'[p].blocks[k] = store[1].blocks[k]]_vars

\* C11: in every committed state of a Space, under any sequence of
\* create_block and delete_block calls, no two blocks of the Space have names
\* that are equal ignoring case.
C11_BlockNamesUnique ==
    \A i, j \in DOMAIN store[1].blocks :
        i # j => Lower(store[1].blocks[i].name) # Lower(store[1].blocks[j].name)

\* C12: in every reachable state of a tenant, under any interleaving of
\* create_space, update_space and delete_space calls, no two Spaces have names
\* that are equal ignoring case.
C12_SpaceNamesUnique ==
    \A i, j \in DOMAIN store :
        i # j => Lower(store[i].name) # Lower(store[j].name)

\* C13: in every committed state each reservation's CIDR is a subset of the
\* CIDR of the block that contains it.
C13_ReservationInBlock ==
    \A b \in Range(store[1].blocks) :
        \A x \in Range(b.resv) :
            /\ x.cidr \in AllCidrs
            /\ Hosts(x.cidr) \subseteq Hosts(b.cidr)

\* A block with a network attached that also has a prefix outside the block
\* holds two reservations, the later one made under reverse_search.
C13_Witness ==
    \E b \in Range(store[1].blocks) :
        /\ Len(b.resv) = 2
        /\ \E v \in Range(b.vnets) :
              \E x \in Range(find_vnet(v.id)[1].prefixes) : ~InNet(x, b.cidr)
        /\ \E p \in Procs :
              /\ pc[p] = "done" /\ result[p] = "ok"
              /\ req[p].api = "create_multi_block_reservation"
              /\ req[p].reverse_search
              /\ val[p].id = b.resv[2].id

\* C14: the allocation is deterministic. Two runs on the same block range, the
\* same consumed ranges and the same size, reverse_search and smallest_cidr
\* end with the same CIDR or the same failure, whatever the order and the
\* kind of record the consumed ranges came from, the caller and the ids drawn.
InputBlock(p) == cosmos_query(store, req[p].space)[1].blocks[1]

ConsumedRanges(block) ==
    {block.resv[i].cidr : i \in DOMAIN block.resv} \cup AttachedPrefixes(block)

SameInputs(p, q) ==
    /\ req[p].size = req[q].size
    /\ req[p].reverse_search = req[q].reverse_search
    /\ req[p].smallest_cidr = req[q].smallest_cidr
    /\ InputBlock(p).cidr = InputBlock(q).cidr
    /\ ConsumedRanges(InputBlock(p)) = ConsumedRanges(InputBlock(q))

MaximalFree(block) ==
    MaximalCidrs(Hosts(block.cidr) \ (ResvHosts(block) \cup AttachedHosts(block)))

Lowest(nets) == CHOOSE c \in nets : \A d \in nets : c.base <= d.base

Highest(nets) == CHOOSE c \in nets : \A d \in nets : d.base <= c.base

FirstSub(net, size) == [base |-> net.base, len |-> size]

LastSub(net, size) == [base |-> net.base + Size(net) - Size(FirstSub(net, size)), len |-> size]

Expected15(block, size, reverse_search) ==
    LET fits == {c \in MaximalFree(block) : c.len <= size}
    IN  IF reverse_search THEN LastSub(Highest(fits), size)
        ELSE FirstSub(Lowest(fits), size)

C15_FirstCandidate ==
    [][\A p \in Procs :
          (/\ Ran(p)
           /\ req'[p].api = "create_block_reservation"
           /\ ~req'[p].smallest_cidr
           /\ StoredBlockIx(req'[p].block) # 0
           /\ HasFit(store[1].blocks[StoredBlockIx(req'[p].block)], req'[p].size))
          => LET r == req'[p]
                 block == store[1].blocks[StoredBlockIx(r.block)]
             IN  /\ pc'[p] = "write"
                 /\ val'[p].cidr = Expected15(block, r.size, r.reverse_search)
                 /\ (block.vnets = <<>> /\ block.resv = <<>> /\ r.size = block.cidr.len + 2)
                    => val'[p].cidr.base =
                          IF r.reverse_search
                          THEN block.cidr.base + 3 * Size(FirstSub(block.cidr, r.size))
                          ELSE block.cidr.base]_vars

\* A reverse search among two fitting free networks has written the last
\* sub-network of the higher one, which is larger than the request.
C15_Witness ==
    \E p \in Procs :
        /\ pc[p] = "write"
        /\ req[p].api = "create_block_reservation"
        /\ ~req[p].smallest_cidr /\ req[p].reverse_search
        /\ StoredBlockIx(req[p].block) # 0
        /\ LET block == store[1].blocks[StoredBlockIx(req[p].block)]
               fits == {c \in MaximalFree(block) : c.len <= req[p].size}
           IN  /\ Cardinality(fits) = 2
               /\ Highest(fits).len < req[p].size
               /\ val[p].cidr = LastSub(Highest(fits), req[p].size)
               /\ val[p].cidr # FirstSub(Lowest(fits), req[p].size)

\* C16: with smallest_cidr true the reservation is carved out of a fitting
\* maximal free network whose mask is the longest among the fitting ones; of
\* several such networks the first in address order is used, or the last
\* under reverse_search. A block whose first quarter is consumed so yields,
\* for a request of an eighth, the first half of its second quarter.
Tightest(block, size) ==
    LET fits == {c \in MaximalFree(block) : c.len <= size}
    IN  {c \in fits : \A d \in fits : d.len <= c.len}

SmallestReq(r) ==
    /\ r.api \in {"create_block_reservation", "create_multi_block_reservation"}
    /\ r.smallest_cidr

QuarterConsumed(block) ==
    /\ block.cidr.len + 3 <= AddrBits
    /\ ResvHosts(block) \cup AttachedHosts(block)
          = Hosts(FirstSub(block.cidr, block.cidr.len + 2))

C16_TightestFit ==
    [][\A p \in Procs :
          (/\ Ran(p)
           /\ SmallestReq(req'[p])
           /\ HasFit(store[1].blocks[1], req'[p].size))
          => LET r == req'[p]
                 block == store[1].blocks[1]
                 tight == Tightest(block, r.size)
                 from == IF r.reverse_search THEN Highest(tight) ELSE Lowest(tight)
             IN  /\ pc'[p] = "write"
                 /\ val'[p].cidr.len = r.size
                 /\ Hosts(val'[p].cidr) \subseteq Hosts(from)
                 /\ (QuarterConsumed(block) /\ r.size = block.cidr.len + 3
                       /\ ~r.reverse_search)
                    => val'[p].cidr
                          = FirstSub(LastSub(FirstSub(block.cidr, block.cidr.len + 1),
                                             block.cidr.len + 2), r.size)]_vars

\* A reverse request has been carved out of the higher of two equally tight
\* free networks while a wider free network lay between them, and a forward
\* request for an eighth out of the second quarter of a block whose first
\* quarter was consumed.
C16_TieWitness ==
    \E p \in Procs :
        /\ pc[p] = "write"
        /\ SmallestReq(req[p]) /\ req[p].reverse_search
        /\ LET block == store[1].blocks[1]
               tight == Tightest(block, req[p].size)
           IN  /\ Cardinality(tight) = 2
               /\ Hosts(val[p].cidr) \subseteq Hosts(Highest(tight))
               /\ val[p].cidr # Highest(tight)

C16_Witness ==
    \E p \in Procs :
        /\ pc[p] = "write"
        /\ SmallestReq(req[p]) /\ ~req[p].reverse_search
        /\ LET block == store[1].blocks[1]
           IN  /\ QuarterConsumed(block)
               /\ req[p].size = block.cidr.len + 3
               /\ \E c \in MaximalFree(block) : c.len < block.cidr.len + 2
               /\ val[p].cidr.base = block.cidr.base + Size(FirstSub(block.cidr, block.cidr.len + 2))

\* C17: a mutating operation that ends in an error leaves the stored document
\* exactly as it was. The step in which a call ends with an error changes
\* nothing in the store, and the store changes only in the step of a call's
\* accepted conditioned replace, by the whole document at once, which ends
\* that call successfully.
EndsInError(p) == pc[p] # "done" /\ pc'[p] = "done" /\ result'[p] # "ok"

WholeReplace(p) ==
    /\ Committed(p)
    /\ DOMAIN store' = DOMAIN store
    /\ store[fetched[p].id].etag = fetched[p].etag
    /\ store' = [store EXCEPT ![fetched[p].id] =
                    [target[p] EXCEPT !.etag = fetched[p].etag + 1]]

C17_ErrorsWriteNothing ==
    [][/\ \A p \in Procs : EndsInError(p) => store' = store
       /\ store' # store => \E p \in Procs : WholeReplace(p)]_vars

\* An update_block_vnets call has given up after five refused writes, each of
\* them refused because of a write the other caller got accepted, and the
\* block holds what that caller wrote last.
C17_Witness ==
    \E p, q \in Procs :
        /\ p # q
        /\ pc[p] = "done" /\ result[p] \in RetryExhausted /\ tries[p] = 0
        /\ req[p].api = "update_block_vnets" /\ req[p].vnets = <<"v1">>
        /\ pc[q] = "done" /\ result[q] = "ok"
        /\ req[q].api = "create_block_reservation"
        /\ store[1].etag >= max_retry
        /\ store[1].blocks[1].vnets = <<>>
        /\ store[1].blocks[1].resv # <<>>

\* C18: a non-forced delete_space removes a Space only if the Space holds no
\* blocks at the moment it is removed from the store, also when a create_block
\* on the same Space runs at the same time; a non-forced delete_space of a
\* Space with blocks fails and leaves the Space stored.
Removed(p) ==
    /\ pc[p] = "delete" /\ pc'[p] = "done"
    /\ fetched[p].id \in DOMAIN store
    /\ fetched[p].id \notin DOMAIN store'

C18_DeletedOnlyWhenEmpty ==
    [][\A p \in Procs :
          /\ (Removed(p) /\ ~req[p].force) => store[fetched[p].id].blocks = <<>>
          /\ (/\ Ran(p)
              /\ req'[p].api = "delete_space" /\ ~req'[p].force
              /\ req'[p].caller \in Admins
              /\ \E i \in DOMAIN store : store[i].blocks # <<>>)
             => /\ pc'[p] = "done"
                /\ result'[p] = "Cannot delete space while it contains blocks."
                /\ store' = store]_vars

\* C19: a non-forced delete_block removes a block only if the block has no
\* attachments and no reservations in the version it replaces; otherwise it
\* fails and the block stays. A forced delete_block removes the block
\* whatever it holds.
Holds(block) == block.vnets # <<>> \/ block.resv # <<>>

C19_DeleteBlock ==
    [][\A p \in Procs :
          /\ (/\ Ran(p)
              /\ req'[p].api = "delete_block"
              /\ StoredBlockIx(req'[p].block) # 0)
             => LET bi == StoredBlockIx(req'[p].block)
                IN  IF ~req'[p].force /\ Holds(store[1].blocks[bi])
                    THEN /\ pc'[p] = "done"
                         /\ result'[p] = "Cannot delete block while it contains vNets or reservations."
                         /\ store' = store
                    ELSE /\ pc'[p] = "write"
                         /\ target'[p].blocks = Del(store[1].blocks, bi)
          /\ (Committed(p) /\ req[p].api = "delete_block" /\ ~req[p].force)
             => /\ store[1] = fetched[p]
                /\ \A b \in Range(store[1].blocks) \ Range(store'[1].blocks) : ~Holds(b)]_vars

\* C20: after a successful create_block_vnet the clipped prefixes of all the
\* attachments of the block, every clipped prefix of the network just attached
\* among them, are pairwise disjoint, given that they were pairwise disjoint
\* before; the directory is fixed.
C20_AttachKeepsDisjoint ==
    [][\A p \in Procs :
          (Committed(p) /\ req[p].api = "create_block_vnet")
          => \A i \in DOMAIN store[1].blocks :
                PairwiseDisjoint(block_vnet_cidrs(store[1].blocks[i]))
                => PairwiseDisjoint(block_vnet_cidrs(store'[1].blocks[i]))]_vars

\* C21: update_block_vnets rejects the whole replacement, leaving the block's
\* attachment list unchanged, whenever the clipped prefixes of the candidate
\* networks overlap one another; when it succeeds the block's attachment list
\* is exactly the given ids in the given order, each marked active.
CandidatePrefixes(vnets, block_cidr) ==
    Concat([i \in DOMAIN vnets |-> clipped(vnets[i], block_cidr)])

C21_ReplaceRejectsOverlap ==
    [][\A p \in Procs :
          (/\ Ran(p)
           /\ req'[p].api = "update_block_vnets"
           /\ StoredBlockIx(req'[p].block) # 0)
          => LET r == req'[p]
                 bi == StoredBlockIx(r.block)
             IN  /\ ~PairwiseDisjoint(CandidatePrefixes(r.vnets, store[1].blocks[bi].cidr))
                    => /\ pc'[p] = "done"
                       /\ result'[p] # "ok"
                       /\ store' = store
                 /\ pc'[p] = "write"
                    => target'[p].blocks[bi].vnets
                          = [i \in DOMAIN r.vnets |-> [id |-> r.vnets[i], active |-> TRUE]]]_vars

\* C22: in every committed state the reservation ids of a block's reservation
\* list are pairwise different and so are the attachment ids of its attachment
\* list, after any sequence of reservation create/delete, create_block_vnet,
\* update_block_vnets and delete_block_vnets calls.
DistinctIds(items) ==
    \A i, j \in DOMAIN items : i # j => items[i].id # items[j].id

C22_IdsUnique ==
    \A b \in Range(store[1].blocks) : DistinctIds(b.resv) /\ DistinctIds(b.vnets)

\* A block holds two attachments and a reservation, and an attach of a
\* network that is attached already has just been refused.
C22_Witness ==
    \E p \in Procs :
        /\ pc[p] = "done" /\ result[p] = "vNet already exists in block."
        /\ \E b \in Range(store[1].blocks) :
              /\ Lower(b.name) = Lower(req[p].block)
              /\ Len(b.vnets) = 2 /\ Len(b.resv) = 1
              /\ \E i \in DOMAIN b.vnets : b.vnets[i].id = req[p].vnet

\* C23: a successful reservation creation appends exactly one record with a
\* fresh id, the caller as owner and status "wait"; afterwards no operation
\* changes the CIDR, owner or status of an existing reservation: a reservation
\* leaves the state only by delete_block_reservations or by a forced delete
\* of its block or Space.
StoredResv(st) ==
    UNION {UNION {{<<i, b.cidr, x>> : x \in Range(b.resv)} : b \in Range(st[i].blocks)} :
             i \in DOMAIN st}

AppendsOne(p) ==
    \E e \in StoredResv(store') :
        /\ StoredResv(store') = StoredResv(store) \cup {e}
        /\ e[3].id \notin {f[3].id : f \in StoredResv(store)}
        /\ e[3].userId = req[p].caller
        /\ e[3].status = "wait"
        /\ e[3].id = val[p].id /\ e[3].cidr = val[p].cidr
        /\ \E k \in DOMAIN store[e[1]].blocks :
              store'[e[1]].blocks[k].resv = Append(store[e[1]].blocks[k].resv, e[3])

Leaves(p) ==
    \/ /\ Committed(p) /\ req[p].api = "delete_block_reservations"
       /\ \A e \in StoredResv(store) \ StoredResv(store') :
             \E i \in DOMAIN req[p].ids : req[p].ids[i] = e[3].id
    \/ Committed(p) /\ req[p].api = "delete_block" /\ req[p].force
    \/ Removed(p) /\ req[p].force

C23_ReservationLife ==
    [][/\ \A p \in Procs :
             (Committed(p) /\ req[p].api = "create_block_reservation") => AppendsOne(p)
       /\ ~(StoredResv(store) \subseteq StoredResv(store')) => \E p \in Procs : Leaves(p)]_vars

\* C24: delete_block_reservations fails without changing the block when the
\* id list has a duplicate or an id that is no reservation of the block; when
\* it succeeds exactly the listed reservations are removed and the others keep
\* their content and their relative order.
C24_DeleteExactly ==
    [][\A p \in Procs :
          (/\ Ran(p)
           /\ req'[p].api = "delete_block_reservations"
           /\ StoredBlockIx(req'[p].block) # 0)
          => LET r == req'[p]
                 bi == StoredBlockIx(r.block)
                 resv == store[1].blocks[bi].resv
             IN  /\ ~ValidIdList(r)
                    => /\ pc'[p] = "done"
                       /\ result'[p] \in {"List contains one or more duplicate id's.",
                                          "List contains one or more invalid id's."}
                       /\ store' = store
                 /\ pc'[p] = "write"
                    => /\ target'[p].blocks[bi].resv
                             = Filter(resv, {x \in Range(resv) : x.id \notin Range(r.ids)})
                       /\ Len(target'[p].blocks[bi].resv) = Len(resv) - Len(r.ids)
                       /\ target'[p] = WithBlock(store[1], bi,
                                          [store[1].blocks[bi] EXCEPT
                                             !.resv = target'[p].blocks[bi].resv])]_vars

\* A list naming both reservations of a block, in the reverse of the stored
\* order, has passed the checks and the block is about to be written empty.
C24_Witness ==
    \E p \in Procs :
        /\ pc[p] = "write"
        /\ req[p].api = "delete_block_reservations"
        /\ LET bi == StoredBlockIx(req[p].block)
               resv == store[1].blocks[bi].resv
           IN  /\ Len(resv) = 2
               /\ req[p].ids = <<resv[2].id, resv[1].id>>
               /\ target[p].blocks[bi].resv = <<>>

\* C25: a caller who is no administrator always gets a permission error from
\* an admin-only mutation (create, update, delete Space; create, delete block;
\* attach, replace, detach networks) and the store is unchanged; reservation
\* creation succeeds for any caller; a reservation is deleted only by its
\* owner or by an administrator.
AdminOnly ==
    {"create_space", "update_space", "delete_space", "create_block", "delete_block",
     "create_block_vnet", "update_block_vnets", "delete_block_vnets"}

C25_Permissions ==
    [][\A p \in Procs :
          /\ (Ran(p) /\ req'[p].api \in AdminOnly /\ req'[p].caller \in Users)
             => /\ pc'[p] = "done"
                /\ result'[p] \in PermissionError
                /\ store' = store
          /\ (/\ Ran(p) /\ req'[p].api = "create_block_reservation"
              /\ 1 \in DOMAIN store
              /\ StoredBlockIx(req'[p].block) # 0
              /\ HasFit(store[1].blocks[StoredBlockIx(req'[p].block)], req'[p].size))
             => /\ pc'[p] = "write"
                /\ val'[p].userId = req'[p].caller
          /\ (Committed(p) /\ req[p].api = "delete_block_reservations")
             => \A e \in StoredResv(store) \ StoredResv(store') :
                   e[3].userId = req[p].caller \/ req[p].caller \in {"root"}]_vars

\* A user's attach has been refused, while the other user's reservation was
\* created and a user's deletion of their own reservation was accepted.
C25_Witness ==
    \E p, q \in Procs :
        /\ p # q
        /\ pc[p] = "done" /\ result[p] = "API restricted to admins."
        /\ req[p].api = "create_block_vnet" /\ req[p].caller = "alice"
        /\ pc[q] = "done" /\ result[q] = "ok"
        /\ req[q].api = "delete_block_reservations" /\ req[q].caller = "bob"
        /\ \E e \in StoredResv(store) : e[3].userId = "alice"

\* C26: in the utilization result each block's size is the address count of
\* its CIDR and its used value is the sum of the address counts of the clipped
\* prefixes of its attachments, counted without deduplication; the Space's
\* size is the sum of its blocks' sizes and the Space's used the sum of its
\* blocks' used values.
Count(cidrs) == SumSeq([i \in DOMAIN cidrs |-> Cardinality(Hosts(cidrs[i]))])

UtilOf(view, space) ==
    /\ Len(view.blocks) = Len(space.blocks)
    /\ \A i \in DOMAIN space.blocks :
          /\ view.blocks[i].size = Cardinality(Hosts(space.blocks[i].cidr))
          /\ view.blocks[i].used = Count(block_vnet_cidrs(space.blocks[i]))
    /\ view.size = SumSeq([i \in DOMAIN view.blocks |-> view.blocks[i].size])
    /\ view.used = SumSeq([i \in DOMAIN view.blocks |-> view.blocks[i].used])

C26_Utilization ==
    [][\A p \in Procs :
          (Ran(p) /\ result'[p] = "ok" /\ req'[p].api \in {"get_space", "get_spaces"}
             /\ req'[p].utilization)
          => IF req'[p].api = "get_space" THEN UtilOf(val'[p], store[1])
             ELSE Len(val'[p]) = 1 /\ UtilOf(val'[p][1], store[1])]_vars

\* C27: in the expanded utilization result an attachment's used value is the
\* sum of the address counts of those of its subnets that lie inside the
\* attachment's own clipped range, and the address count of that range is the
\* attachment's size.
ExpandedOf(view, space) ==
    \A i \in DOMAIN space.blocks :
        \A k \in DOMAIN view.blocks[i].vnets :
            LET v == view.blocks[i].vnets[k]
                range == clipped(v.id, space.blocks[i].cidr)
                inside == {j \in DOMAIN v.subnets :
                             Hosts(v.subnets[j].prefix) \subseteq IPSet(range)}
            IN  /\ v.size = Count(range)
                /\ v.used = SumSeq([j \in DOMAIN v.subnets |->
                                      IF j \in inside
                                      THEN Cardinality(Hosts(v.subnets[j].prefix)) ELSE 0])

C27_ExpandedUtilization ==
    [][\A p \in Procs :
          (Ran(p) /\ result'[p] = "ok" /\ req'[p].api \in {"get_space", "get_spaces"}
             /\ req'[p].utilization /\ req'[p].expand)
          => IF req'[p].api = "get_space" THEN ExpandedOf(val'[p], store[1])
             ELSE ExpandedOf(val'[p][1], store[1])]_vars

\* C28: whenever a reservation handler runs the allocator, the consumed set it
\* builds for a block (the clipped prefixes of the attached networks and the
\* reservation CIDRs) lies inside the block's range, so the symmetric
\* difference it takes is the block minus the consumed set and holds no address
\* outside the block.
C28_ConsumedInBlock ==
    [][\A p \in Procs :
          (Ran(p) /\ req'[p].api \in {"create_block_reservation",
                                      "create_multi_block_reservation"})
          => \A b \in Range(store[1].blocks) :
                LET consumed == IPSet(block_all_cidrs(b))
                IN  /\ consumed \subseteq Hosts(b.cidr)
                    /\ available_set(b) = Hosts(b.cidr) \ consumed
                    /\ available_set(b) \subseteq Hosts(b.cidr)]_vars

\* A reservation was made in a block that already held a reservation and has a
\* network attached with a prefix outside the block.
C28_Witness ==
    \E p \in Procs :
        /\ pc[p] = "done" /\ result[p] = "ok"
        /\ req[p].api = "create_multi_block_reservation"
        /\ ~req[p].reverse_search
        /\ \E b \in Range(store[1].blocks) :
              /\ Len(b.resv) >= 2
              /\ b.resv[Len(b.resv)].cidr = val[p].cidr
              /\ \E i \in DOMAIN b.vnets :
                    clipped_none(b.vnets[i].id, b.cidr) # clipped(b.vnets[i].id, b.cidr)

\* C29: in a block whose first quarter is the only consumed range, a request
\* for an eighth with smallest_cidr chooses among the free networks that
\* iter_cidrs() yields. As stated: these are the second, third and fourth
\* quarter of the block, all of equal size.
Part(block, len, k) ==
    [base |-> block.cidr.base + (k - 1) * Pow2(AddrBits - (block.cidr.len + len)),
     len |-> block.cidr.len + len]

ScenarioC(p) ==
    /\ Ran(p)
    /\ SmallestReq(req'[p]) /\ ~req'[p].reverse_search
    /\ QuarterConsumed(store[1].blocks[1])
    /\ req'[p].size = store[1].blocks[1].cidr.len + 3

Candidates(block, r) == fitting(sliced_cidrs(block, r.reverse_search), r.size)

C29_ThreeQuarters ==
    [][\A p \in Procs :
          ScenarioC(p)
          => LET block == store[1].blocks[1]
                 cands == Candidates(block, req'[p])
             IN  /\ Range(cands) = {Part(block, 2, 2), Part(block, 2, 3), Part(block, 2, 4)}
                 /\ \A i, j \in DOMAIN cands : cands[i].len = cands[j].len]_vars

\* C29 as the code has it: the free networks are the maximal ones, the second
\* quarter and the second half of the block, in that order; the smallest that
\* fits is the second quarter and the result is its first eighth.
C29_QuarterAndHalf ==
    [][\A p \in Procs :
          ScenarioC(p)
          => LET block == store[1].blocks[1]
                 cands == Candidates(block, req'[p])
             IN  /\ cands = <<Part(block, 2, 2), Part(block, 1, 2)>>
                 /\ pc'[p] = "write"
                 /\ val'[p].cidr = FirstSub(Part(block, 2, 2), req'[p].size)]_vars

\* A reservation of an eighth is being written into a block whose first
\* quarter alone is consumed, taken from two free networks of different size.
C29_Witness ==
    \E p \in Procs :
        /\ pc[p] = "write"
        /\ req[p].api = "create_block_reservation"
        /\ req[p].smallest_cidr /\ ~req[p].reverse_search
        /\ LET block == store[1].blocks[1]
               cands == Candidates(block, req[p])
           IN  /\ QuarterConsumed(block)
               /\ req[p].size = block.cidr.len + 3
               /\ Len(cands) = 2 /\ cands[1].len # cands[2].len
               /\ val[p].cidr = Part(block, 3, 3)

\* C30: a tenant has at most one admin record in every reachable state, also
\* when create_admin, update_admins and add_exclusions calls run at the same
\* time while no record exists yet.
C30_OneAdminRecord == Len(admin_query(store)) <= 1

\* C31: no admin list holds two entries with the same id. create_admin for an
\* id the list already holds ends with "User is already an admin.",
\* update_admins for a list with a repeated id ends with the duplicate error,
\* and both steps leave the store as it was.
UniqueAdmins(st) ==
    \A d \in DOMAIN st :
        \A i, j \in DOMAIN st[d].admins :
            st[d].admins[i].id = st[d].admins[j].id => i = j

Listed(st, id) ==
    admin_query(st) # <<>> /\ \E x \in Range(admin_query(st)[1].admins) : x.id = id

Repeated(l) == \E i, j \in DOMAIN l : i # j /\ l[i].id = l[j].id

C31_AdminIdsUnique ==
    [][/\ UniqueAdmins(store')
       /\ \A p \in Procs :
             /\ (Ran(p) /\ req'[p].api = "create_admin" /\ req'[p].caller \in Admins
                   /\ Listed(store, req'[p].admin.id))
                => (result'[p] = "User is already an admin." /\ store' = store)
             /\ (Ran(p) /\ req'[p].api = "update_admins" /\ req'[p].caller \in Admins
                   /\ Repeated(req'[p].admin_list))
                => (result'[p] = "List contains one or more duplicate objectId's."
                    /\ store' = store)]_vars

\* One caller was refused an admin that the stored list holds, another a list
\* with a repeated id.
C31_Witness ==
    /\ \E p \in Procs :
          /\ pc[p] = "done" /\ result[p] = "User is already an admin."
          /\ Listed(store, req[p].admin.id)
    /\ \E p \in Procs :
          /\ pc[p] = "done" /\ req[p].api = "update_admins"
          /\ Repeated(req[p].admin_list) /\ result[p] # "ok"

\* C32: delete_admin in a tenant without an admin record ends with "Admin not
\* found." and remove_exclusion with "Subscription id not found."; neither
\* changes the store.
C32_NoRecordErrors ==
    [][\A p \in Procs :
          (Ran(p) /\ req'[p].api \in {"delete_admin", "remove_exclusion"}
             /\ req'[p].caller \in Admins /\ admin_query(store) = <<>>)
          => /\ store' = store
             /\ result'[p] = IF req'[p].api = "delete_admin" THEN "Admin not found."
                             ELSE "Subscription id not found."]_vars

\* C33: delete_block removes exactly the block its case-insensitive lookup
\* found, whatever the spelling of the name, and leaves the other blocks and
\* the rest of the Space as they were.
C33_DeletesFoundBlock ==
    [][\A p \in Procs :
          /\ (/\ Ran(p)
              /\ req'[p].api = "delete_block" /\ req'[p].caller \in Admins
              /\ StoredBlockIx(req'[p].block) # 0
              /\ req'[p].force \/ ~Holds(store[1].blocks[StoredBlockIx(req'[p].block)]))
             => /\ pc'[p] = "write"
                /\ target'[p] = [store[1] EXCEPT
                                   !.blocks = Del(@, StoredBlockIx(req'[p].block))]
          /\ (Committed(p) /\ req[p].api = "delete_block")
             => store'[1] = [store[1] EXCEPT
                               !.blocks = Del(@, StoredBlockIx(req[p].block)),
                               !.etag = @ + 1]]_vars

\* C34: allocation is complete. A reservation request on a block ends for lack
\* of space only if the block's free set holds no aligned range of the
\* requested prefix length; whenever it holds one, the request reaches its
\* write with such a range, for every combination of reverse_search and
\* smallest_cidr.
FreeHosts(block) == Hosts(block.cidr) \ (ResvHosts(block) \cup AttachedHosts(block))

AlignedFree(block, size) ==
    {c \in AllCidrs : c.len = size /\ Hosts(c) \subseteq FreeHosts(block)}

C34_Complete ==
    [][\A p \in Procs :
          (/\ Ran(p)
           /\ req'[p].api = "create_block_reservation"
           /\ StoredBlockIx(req'[p].block) # 0)
          => LET block == store[1].blocks[StoredBlockIx(req'[p].block)]
                 free == AlignedFree(block, req'[p].size)
             IN  /\ result'[p] \in AllocationExhausted => free = {}
                 /\ free # {} => /\ pc'[p] = "write"
                                 /\ val'[p].cidr \in free]_vars

\* A request under reverse_search and smallest_cidr is being written whose
\* block had free networks of the requested size only, none larger.
C34_Witness ==
    \E p \in Procs :
        /\ pc[p] = "write"
        /\ req[p].api = "create_block_reservation"
        /\ req[p].reverse_search /\ req[p].smallest_cidr
        /\ LET block == store[1].blocks[StoredBlockIx(req[p].block)]
           IN  /\ \A c \in MaximalFree(block) : c.len >= req[p].size
               /\ Cardinality(AlignedFree(block, req[p].size)) = 2
               /\ block.resv # <<>>

\* C35: one create_block_reservation call has at most one effect, however many
\* attempts the retry wrapper makes. Of the steps of a call only the accepted
\* write changes the store; it adds exactly one reservation and ends the call
\* successfully, after which the slot only responds. A call that ends with an
\* error has added none.
StepOf(p) == pc'[p] # pc[p] \/ tries'[p] # tries[p]

C35_OneEffect ==
    [][\A p \in Procs :
          (StepOf(p) /\ req[p].api = "create_block_reservation")
          => /\ IF Committed(p) THEN AppendsOne(p) ELSE store' = store
             /\ pc[p] = "done" => pc'[p] = "idle"
             /\ pc'[p] = "done" /\ result'[p] = "ok" => Committed(p)]_vars

\* A call has succeeded on its third attempt or later, and the Space holds
\* the reservation it returned once.
C35_Witness ==
    \E p \in Procs :
        /\ pc[p] = "done" /\ result[p] = "ok"
        /\ req[p].api = "create_block_reservation"
        /\ tries[p] <= max_retry - 2
        /\ Cardinality({e \in StoredResv(store) : e[3].id = val[p].id}) = 1

\* C36: create followed by delete is a round trip. Whenever a
\* create_block_reservation reaches its write, that write followed by the deletion of the
\* reservation it returned, leaves every block with the reservation list and
\* the free set it had, and the same creation request on the result yields the
\* same CIDR again.
Stored(st, out) == [st EXCEPT ![out.old.id] = [out.new EXCEPT !.etag = out.old.etag + 1]]

DeleteOf(r, id) ==
    [api |-> "delete_block_reservations", space |-> r.space, block |-> r.block,
     ids |-> <<id>>, caller |-> r.caller]

RoundTrip(st, r, c, uuid) ==
    Let(Stored(st, c), LAMBDA st1 :
      Let(delete_block_reservations_body(st1, DeleteOf(r, c.val.id)), LAMBDA d :
        /\ d.err = ""
        /\ d.new.blocks = c.old.blocks
        /\ \A bi \in DOMAIN d.new.blocks :
              available_set(d.new.blocks[bi]) = available_set(c.old.blocks[bi])
        /\ Let(create_block_reservation_body(Stored(st1, d), r, uuid), LAMBDA c2 :
              c2.err = "" /\ c2.val.cidr = c.val.cidr)))

C36_RoundTrip ==
    [][\A p \in Procs :
          (Ran(p) /\ req'[p].api = "create_block_reservation" /\ pc'[p] = "write")
          => RoundTrip(store, req'[p],
                       [old |-> fetched'[p], new |-> target'[p], val |-> val'[p]],
                       nextId' + 1)]_vars

\* A reservation was created and deleted, and the creation that followed got
\* the block as it was: it holds one more reservation than the deleted one
\* left behind, under the second id handed out.
C36_Witness ==
    \E p \in Procs :
        /\ pc[p] = "done" /\ result[p] = "ok"
        /\ req[p].api = "create_block_reservation"
        /\ nextId = 2 /\ val[p].id = 2
        /\ \E b \in Range(store[1].blocks) :
              /\ b.vnets # <<>>
              /\ {b.resv[i].id : i \in DOMAIN b.resv} = {2}

\* C37: an accepted reservation create or delete changes only the reservation
\* list of its target block, and an accepted network attach, replace or detach
\* only its network list: the Space's name and description, the block's name
\* and CIDR, its other list and every other block are in the committed
\* document as they were in the version it replaced.
ResvApis == {"create_block_reservation", "delete_block_reservations"}

VnetApis == {"create_block_vnet", "update_block_vnets", "delete_block_vnets"}

C37_Frame ==
    [][\A p \in Procs :
          (Committed(p) /\ req[p].api \in ResvApis \cup VnetApis)
          => LET bi == StoredBlockIx(req[p].block)
                 old == store[1]
                 new == store'[1]
             IN  /\ bi # 0
                 /\ DOMAIN store' = DOMAIN store
                 /\ new.id = old.id /\ new.name = old.name /\ new.desc = old.desc
                 /\ Len(new.blocks) = Len(old.blocks)
                 /\ \A k \in DOMAIN old.blocks : k # bi => new.blocks[k] = old.blocks[k]
                 /\ new.blocks[bi].name = old.blocks[bi].name
                 /\ new.blocks[bi].cidr = old.blocks[bi].cidr
                 /\ IF req[p].api \in ResvApis
                    THEN new.blocks[bi].vnets = old.blocks[bi].vnets
                    ELSE new.blocks[bi].resv = old.blocks[bi].resv]_vars

\* A network was attached to the second block of a Space whose first block
\* holds a network and a reservation.
C37_Witness ==
    \E p \in Procs :
        /\ pc[p] = "done" /\ result[p] = "ok"
        /\ req[p].api = "create_block_vnet"
        /\ StoredBlockIx(req[p].block) = 2
        /\ store[1].blocks[2].vnets # <<>>
        /\ store[1].blocks[1].vnets # <<>>
        /\ store[1].blocks[1].resv # <<>>

====
